---------------------------- MODULE Spec2Model ----------------------------
(***************************************************************************)
(* Model of BOX3D (src/BOX3D.jsx): the constraint/layout engine            *)
(* calculateConstraints, applied to the App's Configuration.               *)
(*                                                                         *)
(* Dimensions of the Configuration are integers in internal units (IU),    *)
(* 100,000 IU = 1 mm, 2,540,000 IU = 1 inch.  A JavaScript number is       *)
(* modelled as an exact rational  num / IU_PER_IN^exp : a plain IU value   *)
(* has exp = 0 and every application of toScene raises exp by one.         *)
(* Floating-point rounding is not modelled; arithmetic is exact.           *)
(*                                                                         *)
(* The App around it: the compartment walls, the model group rebuilt by    *)
(* the geometry effect after every state change, and the STL string the    *)
(* export handler serializes from that group.                              *)
(***************************************************************************)
EXTENDS Integers, Sequences, FiniteSets, TLC

VARIABLES
    config,            \* useState config (dimensions in IU)
    appMode,           \* useState appMode
    layout,            \* useMemo layout
    compartmentWalls,  \* useState compartmentWalls, in insertion order
    group,             \* modelGroupRef.current.children
    undisposed,        \* geometries and materials dropped without dispose()
    stl,               \* stlString of the export handler that just ran
    hover              \* useState hover of the mounted CompartmentEditor

vars == <<config, appMode, layout, compartmentWalls, group, undisposed, stl, hover>>

(***************************************************************************)
(* Numbers                                                                 *)
(***************************************************************************)
IU_PER_MM == 100000

IU_PER_IN == 2540000

\* A JavaScript number holding the integer x (internal units).
Num(x) == [num |-> x, exp |-> 0]

\* toScene(iu) = (iu / IU_PER_MM) * (1 / 25.4) = iu / IU_PER_IN.
toScene(q) == [num |-> q.num, exp |-> q.exp + 1]

\* a - b on numbers of the same scale.
NumSub(a, b) == [num |-> a.num - b.num, exp |-> a.exp]

\* Numeric equality of num / IU_PER_IN^exp values of any two scales.
RECURSIVE SceneEq(_, _)
SceneEq(a, b) ==
    IF a.exp = b.exp THEN a.num = b.num
    ELSE IF a.exp < b.exp
         THEN b.num % IU_PER_IN = 0
              /\ SceneEq(a, [num |-> b.num \div IU_PER_IN, exp |-> b.exp - 1])
         ELSE SceneEq(b, a)

\* initIn(val) = Math.round(val * IU_PER_IN), for val given in thousandths of an inch.
initIn(thou) == thou * (IU_PER_IN \div 1000)

\* null / undefined
Null == [isNull |-> TRUE]

Max(a, b) == IF a >= b THEN a ELSE b

(***************************************************************************)
(* Constants of calculateConstraints, in IU                                *)
(***************************************************************************)
grid42_IU == 42 * IU_PER_MM

grid7_IU == 7 * IU_PER_MM

lipHeight_IU == 440000

railCapH_IU == 200000

footH_IU == 475000

gridTolerance_IU == IU_PER_MM \div 2

MAX_DIM_IU == 250 * IU_PER_MM

\* The literal 10000 (0.1 mm) of the wall-height branches.
MinWallH_IU == 10000

\* The fixed 5 mm slide-rail estimate of the internal-mode bed check.
SlideEst_IU == 500000

ErrWalls == "Walls are too thick for the defined width/depth."

ErrUnits == "Gridfinity Unit count too low for feet+floor height."

ErrShort == "External height is too short for the floor and lid components."

sizeWarn == "Exceeds 250mm"

IsGridfinity(cfg) == cfg.appMode = "gridfinity"

(***************************************************************************)
(* calculateConstraints, section by section                                *)
(***************************************************************************)

\* Mutant: the lid and perforation warnings given whether or not the
\* feature is enabled.
ValidationWarnings_Ungated(cfg) ==
    (IF cfg.wall < 80000 THEN {"wall"} ELSE {})
    \cup (IF cfg.floor < 80000 THEN {"floor"} ELSE {})
    \cup (IF cfg.tolerance = 0 THEN {"tolerance"} ELSE {})
    \cup (IF cfg.lidThickness < 40000 THEN {"lidThickness"} ELSE {})
    \cup (IF cfg.holeSize < 200000 THEN {"holeSize"} ELSE {})
    \cup (IF cfg.infill < 25 THEN {"infill"} ELSE {})

\* 1-3. Validation checks mapped to controls: the keys that get a warning.
\* infill is held in percent (infill < 0.25 is infill < 25).
ValidationWarnings(cfg) ==
    (IF cfg.wall < 80000 THEN {"wall"} ELSE {})
    \cup (IF cfg.floor < 80000 THEN {"floor"} ELSE {})
    \cup (IF cfg.lidEnabled /\ cfg.tolerance = 0 THEN {"tolerance"} ELSE {})
    \cup (IF cfg.lidEnabled /\ cfg.lidThickness < 40000 THEN {"lidThickness"} ELSE {})
    \cup (IF cfg.holes /\ cfg.holeSize < 200000 THEN {"holeSize"} ELSE {})
    \cup (IF cfg.holes /\ cfg.infill < 25 THEN {"infill"} ELSE {})

WarningText(key) ==
    CASE key = "wall" -> "Fragile (< 0.8mm)"
      [] key = "floor" -> "Risk of warping (< 0.8mm)"
      [] key = "tolerance" -> "0 tolerance: Force fit?"
      [] key = "lidThickness" -> "Too thin (< 0.4mm)"
      [] key = "holeSize" -> "Too small (< 2mm)"
      [] key = "infill" -> "Weak structure (< 25%)"
      [] OTHER -> sizeWarn

\* Mutant: the 0.5 mm clearance taken off each side.
HorizontalPlane_PerSide(cfg) ==
    IF IsGridfinity(cfg) THEN
        LET oW == cfg.gridWidth * grid42_IU - 2 * gridTolerance_IU
            oD == cfg.gridDepth * grid42_IU - 2 * gridTolerance_IU
        IN  [outerW_IU |-> oW, outerD_IU |-> oD,
             innerW_IU |-> oW - (cfg.wall * 2), innerD_IU |-> oD - (cfg.wall * 2)]
    ELSE IF cfg.measureMode = "internal" THEN
        [outerW_IU |-> cfg.width + (cfg.wall * 2), outerD_IU |-> cfg.depth + (cfg.wall * 2),
         innerW_IU |-> cfg.width, innerD_IU |-> cfg.depth]
    ELSE
        [outerW_IU |-> cfg.width, outerD_IU |-> cfg.depth,
         innerW_IU |-> Max(0, cfg.width - (cfg.wall * 2)),
         innerD_IU |-> Max(0, cfg.depth - (cfg.wall * 2))]

\* Mutant: one wall thickness instead of two.
HorizontalPlane_OneWall(cfg) ==
    IF IsGridfinity(cfg) THEN
        LET oW == cfg.gridWidth * grid42_IU - gridTolerance_IU
            oD == cfg.gridDepth * grid42_IU - gridTolerance_IU
        IN  [outerW_IU |-> oW, outerD_IU |-> oD,
             innerW_IU |-> oW - (cfg.wall * 2), innerD_IU |-> oD - (cfg.wall * 2)]
    ELSE IF cfg.measureMode = "internal" THEN
        [outerW_IU |-> cfg.width + cfg.wall, outerD_IU |-> cfg.depth + cfg.wall,
         innerW_IU |-> cfg.width, innerD_IU |-> cfg.depth]
    ELSE
        [outerW_IU |-> cfg.width, outerD_IU |-> cfg.depth,
         innerW_IU |-> Max(0, cfg.width - cfg.wall),
         innerD_IU |-> Max(0, cfg.depth - cfg.wall)]

\* 4. Horizontal plane: outer and inner footprint by mode.
HorizontalPlane(cfg) ==
    IF IsGridfinity(cfg) THEN
        LET oW == cfg.gridWidth * grid42_IU - gridTolerance_IU
            oD == cfg.gridDepth * grid42_IU - gridTolerance_IU
        IN  [outerW_IU |-> oW, outerD_IU |-> oD,
             innerW_IU |-> oW - (cfg.wall * 2), innerD_IU |-> oD - (cfg.wall * 2)]
    ELSE IF cfg.measureMode = "internal" THEN
        [outerW_IU |-> cfg.width + (cfg.wall * 2), outerD_IU |-> cfg.depth + (cfg.wall * 2),
         innerW_IU |-> cfg.width, innerD_IU |-> cfg.depth]
    ELSE
        [outerW_IU |-> cfg.width, outerD_IU |-> cfg.depth,
         innerW_IU |-> Max(0, cfg.width - (cfg.wall * 2)),
         innerD_IU |-> Max(0, cfg.depth - (cfg.wall * 2))]

\* Bed size (250 mm limit): the keys warned about for the footprint.
BedWarnings(cfg, hp) ==
    (IF hp.outerW_IU > MAX_DIM_IU
     THEN (IF IsGridfinity(cfg) THEN {"gridWidth"} ELSE {"width"}) ELSE {})
    \cup (IF hp.outerD_IU > MAX_DIM_IU
          THEN (IF IsGridfinity(cfg) THEN {"gridDepth"} ELSE {"depth"}) ELSE {})

\* The footprint error.
HorizontalErrors(hp) ==
    IF hp.innerW_IU <= 0 \/ hp.innerD_IU <= 0 THEN <<ErrWalls>> ELSE <<>>

\* 5.A Feet: the cursor after the feet.
FeetCursor(cfg) ==
    IF IsGridfinity(cfg) /\ cfg.gridfinityType = "bin" THEN footH_IU ELSE 0

\* Mutant: the slide-lid stack without its 2 mm rail cap.
ExternalLidStack_NoCap(cfg) ==
    IF cfg.lidEnabled /\ cfg.lidType = "slide"
    THEN cfg.lidThickness + cfg.tolerance
    ELSE IF cfg.lidEnabled /\ cfg.lidType = "step" THEN cfg.lidThickness
    ELSE 0

\* The lid stack an external-mode wall leaves room for.
ExternalLidStack(cfg) ==
    IF cfg.lidEnabled /\ cfg.lidType = "slide"
    THEN railCapH_IU + (cfg.lidThickness + cfg.tolerance)
    ELSE IF cfg.lidEnabled /\ cfg.lidType = "step" THEN cfg.lidThickness
    ELSE 0

\* Mutant: the gridfinity wall height clamped to the threshold in every case.
WallTarget_Clamped(cfg, cursorY_IU) ==
    IF IsGridfinity(cfg) THEN
        LET stackingHeight_IU == cfg.gridHeight * grid7_IU
            raw == stackingHeight_IU - cursorY_IU
        IN  [targetWallH_IU |-> Max(MinWallH_IU, raw),
             errors |-> IF raw < MinWallH_IU THEN <<ErrUnits>> ELSE <<>>,
             warnKeys |-> IF stackingHeight_IU > MAX_DIM_IU THEN {"gridHeight"} ELSE {},
             bodyH |-> toScene(Num(stackingHeight_IU))]
    ELSE IF cfg.measureMode = "internal" THEN
        LET target == cfg.height
                      + (IF cfg.lidEnabled /\ cfg.lidType = "step" THEN cfg.lipDepth ELSE 0)
            totalEstH == target + cursorY_IU
                         + (IF cfg.lidEnabled /\ cfg.lidType = "slide" THEN SlideEst_IU ELSE 0)
        IN  [targetWallH_IU |-> target,
             errors |-> <<>>,
             warnKeys |-> IF totalEstH > MAX_DIM_IU THEN {"height"} ELSE {},
             bodyH |-> Null]
    ELSE
        LET nonWallStack_IU == cursorY_IU + ExternalLidStack(cfg)
            raw == cfg.height - nonWallStack_IU
        IN  [targetWallH_IU |-> Max(MinWallH_IU, raw),
             errors |-> IF raw <= 0 THEN <<ErrShort>> ELSE <<>>,
             warnKeys |-> IF cfg.height > MAX_DIM_IU THEN {"height"} ELSE {},
             bodyH |-> Null]

\* Mutant: the insert depth added for any enabled lid, whatever its type.
WallTarget_AnyLid(cfg, cursorY_IU) ==
    IF IsGridfinity(cfg) THEN
        LET stackingHeight_IU == cfg.gridHeight * grid7_IU
            raw == stackingHeight_IU - cursorY_IU
        IN  [targetWallH_IU |-> IF raw < MinWallH_IU THEN raw ELSE Max(MinWallH_IU, raw),
             errors |-> IF raw < MinWallH_IU THEN <<ErrUnits>> ELSE <<>>,
             warnKeys |-> IF stackingHeight_IU > MAX_DIM_IU THEN {"gridHeight"} ELSE {},
             bodyH |-> toScene(Num(stackingHeight_IU))]
    ELSE IF cfg.measureMode = "internal" THEN
        LET target == cfg.height + (IF cfg.lidEnabled THEN cfg.lipDepth ELSE 0)
            totalEstH == target + cursorY_IU
                         + (IF cfg.lidEnabled /\ cfg.lidType = "slide" THEN SlideEst_IU ELSE 0)
        IN  [targetWallH_IU |-> target,
             errors |-> <<>>,
             warnKeys |-> IF totalEstH > MAX_DIM_IU THEN {"height"} ELSE {},
             bodyH |-> Null]
    ELSE
        LET nonWallStack_IU == cursorY_IU + ExternalLidStack(cfg)
            raw == cfg.height - nonWallStack_IU
        IN  [targetWallH_IU |-> Max(MinWallH_IU, raw),
             errors |-> IF raw <= 0 THEN <<ErrShort>> ELSE <<>>,
             warnKeys |-> IF cfg.height > MAX_DIM_IU THEN {"height"} ELSE {},
             bodyH |-> Null]

\* Mutant: the external remainder clamped to 0 instead of the 0.1 mm threshold.
WallTarget_ClampZero(cfg, cursorY_IU) ==
    IF IsGridfinity(cfg) THEN
        LET stackingHeight_IU == cfg.gridHeight * grid7_IU
            raw == stackingHeight_IU - cursorY_IU
        IN  [targetWallH_IU |-> IF raw < MinWallH_IU THEN raw ELSE Max(MinWallH_IU, raw),
             errors |-> IF raw < MinWallH_IU THEN <<ErrUnits>> ELSE <<>>,
             warnKeys |-> IF stackingHeight_IU > MAX_DIM_IU THEN {"gridHeight"} ELSE {},
             bodyH |-> toScene(Num(stackingHeight_IU))]
    ELSE IF cfg.measureMode = "internal" THEN
        LET target == cfg.height
                      + (IF cfg.lidEnabled /\ cfg.lidType = "step" THEN cfg.lipDepth ELSE 0)
            totalEstH == target + cursorY_IU
                         + (IF cfg.lidEnabled /\ cfg.lidType = "slide" THEN SlideEst_IU ELSE 0)
        IN  [targetWallH_IU |-> target,
             errors |-> <<>>,
             warnKeys |-> IF totalEstH > MAX_DIM_IU THEN {"height"} ELSE {},
             bodyH |-> Null]
    ELSE
        LET nonWallStack_IU == cursorY_IU + ExternalLidStack(cfg)
            raw == cfg.height - nonWallStack_IU
        IN  [targetWallH_IU |-> Max(0, raw),
             errors |-> IF raw <= 0 THEN <<ErrShort>> ELSE <<>>,
             warnKeys |-> IF cfg.height > MAX_DIM_IU THEN {"height"} ELSE {},
             bodyH |-> Null]

\* Mutant: the floor counted twice in the external-mode non-wall stack.
WallTarget_FloorTwice(cfg, cursorY_IU) ==
    IF IsGridfinity(cfg) THEN
        LET stackingHeight_IU == cfg.gridHeight * grid7_IU
            raw == stackingHeight_IU - cursorY_IU
        IN  [targetWallH_IU |-> IF raw < MinWallH_IU THEN raw ELSE Max(MinWallH_IU, raw),
             errors |-> IF raw < MinWallH_IU THEN <<ErrUnits>> ELSE <<>>,
             warnKeys |-> IF stackingHeight_IU > MAX_DIM_IU THEN {"gridHeight"} ELSE {},
             bodyH |-> toScene(Num(stackingHeight_IU))]
    ELSE IF cfg.measureMode = "internal" THEN
        LET target == cfg.height
                      + (IF cfg.lidEnabled /\ cfg.lidType = "step" THEN cfg.lipDepth ELSE 0)
            totalEstH == target + cursorY_IU
                         + (IF cfg.lidEnabled /\ cfg.lidType = "slide" THEN SlideEst_IU ELSE 0)
        IN  [targetWallH_IU |-> target,
             errors |-> <<>>,
             warnKeys |-> IF totalEstH > MAX_DIM_IU THEN {"height"} ELSE {},
             bodyH |-> Null]
    ELSE
        LET nonWallStack_IU == cursorY_IU + cfg.floor + ExternalLidStack(cfg)
            raw == cfg.height - nonWallStack_IU
        IN  [targetWallH_IU |-> Max(MinWallH_IU, raw),
             errors |-> IF raw <= 0 THEN <<ErrShort>> ELSE <<>>,
             warnKeys |-> IF cfg.height > MAX_DIM_IU THEN {"height"} ELSE {},
             bodyH |-> Null]

\* 5.C Wall height by mode, with its error, its bed-size warning and bodyH.
\* cursorY_IU is the cursor after the floor.  In the gridfinity branch the
\* clamp sits in the else of the error test, so it acts only when
\* targetWallH_IU >= 10000.
WallTarget(cfg, cursorY_IU) ==
    IF IsGridfinity(cfg) THEN
        LET stackingHeight_IU == cfg.gridHeight * grid7_IU
            raw == stackingHeight_IU - cursorY_IU
        IN  [targetWallH_IU |-> IF raw < MinWallH_IU THEN raw ELSE Max(MinWallH_IU, raw),
             errors |-> IF raw < MinWallH_IU THEN <<ErrUnits>> ELSE <<>>,
             warnKeys |-> IF stackingHeight_IU > MAX_DIM_IU THEN {"gridHeight"} ELSE {},
             bodyH |-> toScene(Num(stackingHeight_IU))]
    ELSE IF cfg.measureMode = "internal" THEN
        LET target == cfg.height
                      + (IF cfg.lidEnabled /\ cfg.lidType = "step" THEN cfg.lipDepth ELSE 0)
            totalEstH == target + cursorY_IU
                         + (IF cfg.lidEnabled /\ cfg.lidType = "slide" THEN SlideEst_IU ELSE 0)
        IN  [targetWallH_IU |-> target,
             errors |-> <<>>,
             warnKeys |-> IF totalEstH > MAX_DIM_IU THEN {"height"} ELSE {},
             bodyH |-> Null]
    ELSE
        LET nonWallStack_IU == cursorY_IU + ExternalLidStack(cfg)
            raw == cfg.height - nonWallStack_IU
        IN  [targetWallH_IU |-> Max(MinWallH_IU, raw),
             errors |-> IF raw <= 0 THEN <<ErrShort>> ELSE <<>>,
             warnKeys |-> IF cfg.height > MAX_DIM_IU THEN {"height"} ELSE {},
             bodyH |-> Null]

\* Mutant: an enabled lid taking the place of the gridfinity lip.
TopFeatures_LidFirst(cfg, cursorY_IU, hp) ==
    IF IsGridfinity(cfg) /\ ~cfg.lidEnabled THEN
        [cursor |-> cursorY_IU + lipHeight_IU,
         lip |-> [yMin |-> toScene(Num(cursorY_IU)),
                  yMax |-> toScene(Num(cursorY_IU + lipHeight_IU))],
         rail |-> Null, lid |-> Null]
    ELSE IF cfg.lidEnabled /\ cfg.lidType = "slide" THEN
        LET spacerH_IU == cfg.lidThickness + cfg.tolerance
            spacerStart_IU == cursorY_IU
            capStart_IU == cursorY_IU + spacerH_IU
        IN  [cursor |-> capStart_IU + railCapH_IU,
             lip |-> Null,
             rail |-> [spacer |-> [yMin |-> toScene(Num(spacerStart_IU)),
                                   yMax |-> toScene(Num(spacerStart_IU + spacerH_IU))],
                       cap |-> [yMin |-> toScene(Num(capStart_IU)),
                                yMax |-> toScene(Num(capStart_IU + railCapH_IU))]],
             \* lidThick_IU / 2: the lid thicknesses of the model are even.
             lid |-> [yPos |-> toScene(Num(spacerStart_IU + (cfg.lidThickness \div 2))),
                      type |-> "slide",
                      thickness |-> toScene(Num(cfg.lidThickness)),
                      width |-> toScene(Num(hp.outerW_IU - cfg.wall - cfg.tolerance)),
                      depth |-> toScene(Num(hp.outerD_IU - cfg.tolerance))]]
    ELSE IF cfg.lidEnabled /\ cfg.lidType = "step" THEN
        [cursor |-> cursorY_IU + cfg.lidThickness,
         lip |-> Null, rail |-> Null,
         lid |-> [yPos |-> toScene(Num(cursorY_IU)),
                  type |-> "step",
                  thickness |-> toScene(Num(cfg.lidThickness)),
                  insertDepth |-> toScene(Num(cfg.lipDepth)),
                  width |-> toScene(Num(hp.outerW_IU)),
                  depth |-> toScene(Num(hp.outerD_IU))]]
    ELSE
        [cursor |-> cursorY_IU, lip |-> Null, rail |-> Null, lid |-> Null]

\* Mutant: the slide lid advancing the cursor by its thickness as well.
TopFeatures_LidAdditive(cfg, cursorY_IU, hp) ==
    IF IsGridfinity(cfg) THEN
        [cursor |-> cursorY_IU + lipHeight_IU,
         lip |-> [yMin |-> toScene(Num(cursorY_IU)),
                  yMax |-> toScene(Num(cursorY_IU + lipHeight_IU))],
         rail |-> Null, lid |-> Null]
    ELSE IF cfg.lidEnabled /\ cfg.lidType = "slide" THEN
        LET spacerH_IU == cfg.lidThickness + cfg.tolerance
            spacerStart_IU == cursorY_IU
            capStart_IU == cursorY_IU + spacerH_IU
        IN  [cursor |-> capStart_IU + railCapH_IU + cfg.lidThickness,
             lip |-> Null,
             rail |-> [spacer |-> [yMin |-> toScene(Num(spacerStart_IU)),
                                   yMax |-> toScene(Num(spacerStart_IU + spacerH_IU))],
                       cap |-> [yMin |-> toScene(Num(capStart_IU)),
                                yMax |-> toScene(Num(capStart_IU + railCapH_IU))]],
             \* lidThick_IU / 2: the lid thicknesses of the model are even.
             lid |-> [yPos |-> toScene(Num(spacerStart_IU + (cfg.lidThickness \div 2))),
                      type |-> "slide",
                      thickness |-> toScene(Num(cfg.lidThickness)),
                      width |-> toScene(Num(hp.outerW_IU - cfg.wall - cfg.tolerance)),
                      depth |-> toScene(Num(hp.outerD_IU - cfg.tolerance))]]
    ELSE IF cfg.lidEnabled /\ cfg.lidType = "step" THEN
        [cursor |-> cursorY_IU + cfg.lidThickness,
         lip |-> Null, rail |-> Null,
         lid |-> [yPos |-> toScene(Num(cursorY_IU)),
                  type |-> "step",
                  thickness |-> toScene(Num(cfg.lidThickness)),
                  insertDepth |-> toScene(Num(cfg.lipDepth)),
                  width |-> toScene(Num(hp.outerW_IU)),
                  depth |-> toScene(Num(hp.outerD_IU))]]
    ELSE
        [cursor |-> cursorY_IU, lip |-> Null, rail |-> Null, lid |-> Null]

\* 5.D Top features above the wall; cursorY_IU is the cursor after the wall.
\* Returns the cursor after the top feature and the rail, lip and lid entries.
TopFeatures(cfg, cursorY_IU, hp) ==
    IF IsGridfinity(cfg) THEN
        [cursor |-> cursorY_IU + lipHeight_IU,
         lip |-> [yMin |-> toScene(Num(cursorY_IU)),
                  yMax |-> toScene(Num(cursorY_IU + lipHeight_IU))],
         rail |-> Null, lid |-> Null]
    ELSE IF cfg.lidEnabled /\ cfg.lidType = "slide" THEN
        LET spacerH_IU == cfg.lidThickness + cfg.tolerance
            spacerStart_IU == cursorY_IU
            capStart_IU == cursorY_IU + spacerH_IU
        IN  [cursor |-> capStart_IU + railCapH_IU,
             lip |-> Null,
             rail |-> [spacer |-> [yMin |-> toScene(Num(spacerStart_IU)),
                                   yMax |-> toScene(Num(spacerStart_IU + spacerH_IU))],
                       cap |-> [yMin |-> toScene(Num(capStart_IU)),
                                yMax |-> toScene(Num(capStart_IU + railCapH_IU))]],
             \* lidThick_IU / 2: the lid thicknesses of the model are even.
             lid |-> [yPos |-> toScene(Num(spacerStart_IU + (cfg.lidThickness \div 2))),
                      type |-> "slide",
                      thickness |-> toScene(Num(cfg.lidThickness)),
                      width |-> toScene(Num(hp.outerW_IU - cfg.wall - cfg.tolerance)),
                      depth |-> toScene(Num(hp.outerD_IU - cfg.tolerance))]]
    ELSE IF cfg.lidEnabled /\ cfg.lidType = "step" THEN
        [cursor |-> cursorY_IU + cfg.lidThickness,
         lip |-> Null, rail |-> Null,
         lid |-> [yPos |-> toScene(Num(cursorY_IU)),
                  type |-> "step",
                  thickness |-> toScene(Num(cfg.lidThickness)),
                  insertDepth |-> toScene(Num(cfg.lipDepth)),
                  width |-> toScene(Num(hp.outerW_IU)),
                  depth |-> toScene(Num(hp.outerD_IU))]]
    ELSE
        [cursor |-> cursorY_IU, lip |-> Null, rail |-> Null, lid |-> Null]

\* Mutant: valid left true whatever the errors.
ValidFlag_AlwaysTrue(errors) == TRUE

\* valid: errors.length === 0
ValidFlag(errors) == Len(errors) = 0

\* Mutant: the floor segment started at Y = 0 instead of at the cursor.
FloorSegment_FromZero(floorStart_IU, floor_IU) ==
    [yMin |-> toScene(Num(0)), yMax |-> toScene(Num(floorStart_IU + floor_IU))]

\* 5.B Floor segment.
FloorSegment(floorStart_IU, floor_IU) ==
    [yMin |-> toScene(Num(floorStart_IU)), yMax |-> toScene(Num(floorStart_IU + floor_IU))]

\* The Constraint Engine: Configuration (with appMode) -> Layout.
calculateConstraints(cfg) ==
    LET hp == HorizontalPlane(cfg)
        feetEnd_IU == FeetCursor(cfg)
        floorEnd_IU == feetEnd_IU + cfg.floor
        wt == WallTarget(cfg, floorEnd_IU)
        wallEnd_IU == floorEnd_IU + wt.targetWallH_IU
        top == TopFeatures(cfg, wallEnd_IU, hp)
        errors == HorizontalErrors(hp) \o wt.errors
        warnKeys == ValidationWarnings(cfg) \cup BedWarnings(cfg, hp) \cup wt.warnKeys
        stack == [feet |-> IF IsGridfinity(cfg) /\ cfg.gridfinityType = "bin"
                           THEN [yMin |-> Num(0), yMax |-> toScene(Num(footH_IU))]
                           ELSE Null,
                  floor |-> FloorSegment(feetEnd_IU, cfg.floor),
                  wall |-> [yMin |-> toScene(Num(floorEnd_IU)),
                            yMax |-> toScene(Num(wallEnd_IU))],
                  rail |-> top.rail,
                  lip |-> top.lip,
                  lid |-> top.lid,
                  bodyH |-> wt.bodyH]
    IN  [outerW |-> toScene(Num(hp.outerW_IU)),
         outerD |-> toScene(Num(hp.outerD_IU)),
         innerW |-> toScene(Num(hp.innerW_IU)),
         innerD |-> toScene(Num(hp.innerD_IU)),
         totalH |-> toScene(Num(top.cursor)),
         innerH |-> toScene(NumSub(stack.wall.yMax, stack.floor.yMax)),
         bodyH |-> stack.bodyH,
         stack |-> stack,
         valid |-> ValidFlag(errors),
         errors |-> errors,
         warnings |-> [k \in warnKeys |-> WarningText(k)]]


(***************************************************************************)
(* Gridfinity profiles (scene units; x * MM_TO_IN is toScene of x mm)      *)
(***************************************************************************)
\* x hundredths of a millimetre times MM_TO_IN.
MmToIn(hundredths) == toScene(Num(hundredths * (IU_PER_MM \div 100)))

\* createGridfinityFootGeo: the four levels of one foot.
FootLevels ==
    << [y |-> MmToIn(0),   width |-> MmToIn(3560), depth |-> MmToIn(3560), radius |-> MmToIn(105)],
       [y |-> MmToIn(70),  width |-> MmToIn(3700), depth |-> MmToIn(3700), radius |-> MmToIn(175)],
       [y |-> MmToIn(70 + 180), width |-> MmToIn(3700), depth |-> MmToIn(3700), radius |-> MmToIn(175)],
       [y |-> MmToIn(70 + 180 + 225), width |-> MmToIn(4150), depth |-> MmToIn(4150), radius |-> MmToIn(400)] >>

\* Mutant: the lip without its 0.5 mm entrance inset.
LipInnerLevels_NoTopInset(outerW, outerD) ==
    << [y |-> MmToIn(0), width |-> NumSub(outerW, MmToIn(640)),
        depth |-> NumSub(outerD, MmToIn(640)), radius |-> MmToIn(105)],
       [y |-> MmToIn(70), width |-> NumSub(outerW, MmToIn(500)),
        depth |-> NumSub(outerD, MmToIn(500)), radius |-> MmToIn(175)],
       [y |-> MmToIn(70 + 145), width |-> NumSub(outerW, MmToIn(500)),
        depth |-> NumSub(outerD, MmToIn(500)), radius |-> MmToIn(175)],
       [y |-> MmToIn(440), width |-> outerW, depth |-> outerD, radius |-> MmToIn(400)] >>

\* createGridfinityLipGeo: the four levels of the inner cavity, bottom (seat)
\* to top (entrance), for a lip of outer footprint outerW x outerD.
LipInnerLevels(outerW, outerD) ==
    << [y |-> MmToIn(0), width |-> NumSub(outerW, MmToIn(640)),
        depth |-> NumSub(outerD, MmToIn(640)), radius |-> MmToIn(105)],
       [y |-> MmToIn(70), width |-> NumSub(outerW, MmToIn(500)),
        depth |-> NumSub(outerD, MmToIn(500)), radius |-> MmToIn(175)],
       [y |-> MmToIn(70 + 145), width |-> NumSub(outerW, MmToIn(500)),
        depth |-> NumSub(outerD, MmToIn(500)), radius |-> MmToIn(175)],
       [y |-> MmToIn(440), width |-> NumSub(outerW, MmToIn(50)),
        depth |-> NumSub(outerD, MmToIn(50)), radius |-> MmToIn(400)] >>

\* The feet of a bin: unitsX cells centred on the nominal 42 mm pitch, so the
\* tops of the feet span (unitsX - 1) * 42 mm + the top-level width of one foot.
FootTopSpan(units) ==
    [num |-> (units - 1) * grid42_IU + FootLevels[4].width.num, exp |-> 1]

(***************************************************************************)
(* Configurations                                                          *)
(***************************************************************************)
MaxGridWidth == 2

MaxGridDepth == 2

MaxGridHeight == 2

\* DEFAULT CONFIG (micron native) of the App.
DefaultConfig ==
    [measureMode |-> "internal", gridfinityType |-> "bin",
     lidEnabled |-> FALSE, lidType |-> "step",
     width |-> initIn(3500), depth |-> initIn(5500), height |-> initIn(2500),
     wall |-> initIn(80), floor |-> initIn(80),
     lidThickness |-> initIn(80), lipDepth |-> initIn(150), tolerance |-> initIn(10),
     holeSize |-> initIn(250),
     gridWidth |-> 2, gridDepth |-> 3, gridHeight |-> 6,
     holes |-> FALSE, infill |-> 50]

\* Values a dimension field takes in the model (IU): 1 mm and the default.
Widths == {IU_PER_MM, initIn(3500)}

Depths == {IU_PER_MM, initIn(5500)}

\* 0.1 in and the default 2.5 in.
Heights == {initIn(100), initIn(2500)}

\* 0.5 mm, the default 0.08 in, 21 mm.
Walls == {IU_PER_MM \div 2, initIn(80), 21 * IU_PER_MM}

\* 0.5 mm, the default 0.08 in and 2.5 mm.
Floors == {IU_PER_MM \div 2, initIn(80), 25 * (IU_PER_MM \div 10)}

\* 0.3 mm and the default 0.08 in.
LidThicknesses == {3 * (IU_PER_MM \div 10), initIn(80)}

Tolerances == {0, initIn(10)}

GridHeights == (1..MaxGridHeight) \cup {6}

\* Inch / mm boxes: the box fields vary, the grid fields keep their defaults.
BoxConfigs ==
    [measureMode : {"internal", "external"}, gridfinityType : {"bin"},
     lidEnabled : BOOLEAN, lidType : {"step", "slide"},
     width : Widths, depth : Depths, height : Heights,
     wall : Walls, floor : Floors,
     lidThickness : LidThicknesses, lipDepth : {DefaultConfig.lipDepth},
     tolerance : Tolerances, holeSize : {DefaultConfig.holeSize},
     gridWidth : {DefaultConfig.gridWidth}, gridDepth : {DefaultConfig.gridDepth},
     gridHeight : {DefaultConfig.gridHeight},
     holes : {FALSE}, infill : {DefaultConfig.infill}]

\* Gridfinity parts: the grid fields vary; the box fields that the grid
\* layout must not depend on (measureMode, width, depth, lid) vary too.
GridConfigs ==
    [measureMode : {"internal", "external"}, gridfinityType : {"bin", "frame"},
     lidEnabled : BOOLEAN, lidType : {"step", "slide"},
     width : Widths, depth : Depths, height : {DefaultConfig.height},
     wall : Walls, floor : Floors,
     lidThickness : {DefaultConfig.lidThickness}, lipDepth : {DefaultConfig.lipDepth},
     tolerance : {DefaultConfig.tolerance}, holeSize : {DefaultConfig.holeSize},
     gridWidth : 1..MaxGridWidth, gridDepth : 1..MaxGridDepth,
     gridHeight : GridHeights,
     holes : {FALSE}, infill : {DefaultConfig.infill}]

\* Perforation and thinness settings: the fields that only produce warnings.
PerfConfigs ==
    [measureMode : {"internal", "external"}, gridfinityType : {"bin"},
     lidEnabled : BOOLEAN, lidType : {"step"},
     width : {DefaultConfig.width}, depth : {DefaultConfig.depth},
     height : {DefaultConfig.height},
     wall : {IU_PER_MM \div 2, initIn(80)}, floor : {IU_PER_MM \div 2, initIn(80)},
     lidThickness : {DefaultConfig.lidThickness}, lipDepth : {DefaultConfig.lipDepth},
     tolerance : {DefaultConfig.tolerance}, holeSize : {IU_PER_MM, initIn(250)},
     gridWidth : {DefaultConfig.gridWidth}, gridDepth : {DefaultConfig.gridDepth},
     gridHeight : {DefaultConfig.gridHeight},
     holes : BOOLEAN, infill : {20, 50}]

\* Boxes near and beyond the 250 mm bed: 244 mm and 260 mm.
BigBoxConfigs ==
    [measureMode : {"internal", "external"}, gridfinityType : {"bin"},
     lidEnabled : BOOLEAN, lidType : {"step", "slide"},
     width : {DefaultConfig.width, 260 * IU_PER_MM},
     depth : {DefaultConfig.depth, 260 * IU_PER_MM},
     height : {244 * IU_PER_MM, 260 * IU_PER_MM},
     wall : {DefaultConfig.wall}, floor : {DefaultConfig.floor},
     lidThickness : {DefaultConfig.lidThickness}, lipDepth : {DefaultConfig.lipDepth},
     tolerance : {DefaultConfig.tolerance}, holeSize : {DefaultConfig.holeSize},
     gridWidth : {DefaultConfig.gridWidth}, gridDepth : {DefaultConfig.gridDepth},
     gridHeight : {DefaultConfig.gridHeight},
     holes : {FALSE}, infill : {DefaultConfig.infill}]

\* Gridfinity parts near and beyond the 250 mm bed: 6 units of 42 mm, 36 of 7 mm.
BigGridConfigs ==
    [measureMode : {"internal"}, gridfinityType : {"bin", "frame"},
     lidEnabled : {FALSE}, lidType : {"step"},
     width : {DefaultConfig.width}, depth : {DefaultConfig.depth},
     height : {DefaultConfig.height},
     wall : {DefaultConfig.wall}, floor : {DefaultConfig.floor},
     lidThickness : {DefaultConfig.lidThickness}, lipDepth : {DefaultConfig.lipDepth},
     tolerance : {DefaultConfig.tolerance}, holeSize : {DefaultConfig.holeSize},
     gridWidth : {DefaultConfig.gridWidth, 6}, gridDepth : {DefaultConfig.gridDepth, 6},
     gridHeight : {DefaultConfig.gridHeight, 36},
     holes : {FALSE}, infill : {DefaultConfig.infill}]

\* { ...config, appMode }
WithAppMode(cfg, mode) ==
    [k \in DOMAIN cfg \cup {"appMode"} |-> IF k = "appMode" THEN mode ELSE cfg[k]]

(***************************************************************************)
(* Specification: a Configuration is given, the engine is applied to it.   *)
(***************************************************************************)
(***************************************************************************)
(* Model group and STL serializer                                          *)
(***************************************************************************)
\* new THREE.MeshStandardMaterial({..., side: THREE.DoubleSide})
material == [type |-> "MeshStandardMaterial", side |-> "DoubleSide"]

\* Mutant: the lid material of another material class.
lidMaterial_Basic == [type |-> "MeshBasicMaterial", side |-> "FrontSide"]

\* new THREE.MeshStandardMaterial({...}) without the side option
lidMaterial == [type |-> "MeshStandardMaterial", side |-> "FrontSide"]

\* Triangles of a geometry (positions.length / 9 once non-indexed).  A
\* BoxGeometry has 12; the solid wall tube (a rectangle with a rectangular
\* hole, extruded without bevel) has 32.  The counts of the perforated panels,
\* the frame, the foot and the lip depend on the perforation and curve
\* subdivision; each is represented by one fixed positive count.
Triangles(geometryType) ==
    CASE geometryType = "BoxGeometry" -> 12
      [] geometryType = "ExtrudeGeometry" -> 32
      [] geometryType = "BufferGeometry" -> 16

\* addMesh(geo, x, y, z, rotX, rotY, mat): the mesh added to the group.  part
\* and at name the geometry instance and its place among its siblings.
addMesh(part, at, geometryType, mat) ==
    [isMesh |-> TRUE, visible |-> TRUE, part |-> part, at |-> at,
     geometry |-> [type |-> geometryType, triangles |-> Triangles(geometryType)],
     material |-> mat]

\* A horizontal scene coordinate given by its IU numerator.
Sc(iu) == toScene(Num(iu))

\* const gap = 30 * MM_TO_IN
gap_IU == 30 * IU_PER_MM

\* const boxOffsetX = -(outerW / 2) - gap: the x of the bin centre (IU
\* numerator; the outer widths of the model are even).
boxOffsetX(lay) == -(lay.outerW.num \div 2) - gap_IU

\* startX = -(nominalW / 2) + (GRID_IN / 2) for a nominal width of units cells.
NominalStart(units) == -((units * grid42_IU) \div 2) + (grid42_IU \div 2)

\* Mutant: the feet started from the shrunk outer footprint.
FeetMeshes_OuterStart(cfg, lay) ==
    IF lay.stack.feet # Null
    THEN [k \in 1..(cfg.gridWidth * cfg.gridDepth) |->
            LET i == (k - 1) \div cfg.gridDepth
                j == (k - 1) % cfg.gridDepth
                cx == -(lay.outerW.num \div 2) + (grid42_IU \div 2) + i * grid42_IU
                cz == -(lay.outerD.num \div 2) + (grid42_IU \div 2) + j * grid42_IU
            IN  addMesh("foot", [x |-> Sc(cx + boxOffsetX(lay)), z |-> Sc(cz)],
                        "BufferGeometry", material)]
    ELSE <<>>

\* 1. FEET: one foot per grid cell on the nominal 42 mm grid centres, i
\* outer and j inner; at is the position (x, z) given to addMesh.
FeetMeshes(cfg, lay) ==
    IF lay.stack.feet # Null
    THEN [k \in 1..(cfg.gridWidth * cfg.gridDepth) |->
            LET i == (k - 1) \div cfg.gridDepth
                j == (k - 1) % cfg.gridDepth
                cx == NominalStart(cfg.gridWidth) + i * grid42_IU
                cz == NominalStart(cfg.gridDepth) + j * grid42_IU
            IN  addMesh("foot", [x |-> Sc(cx + boxOffsetX(lay)), z |-> Sc(cz)],
                        "BufferGeometry", material)]
    ELSE <<>>

\* 2. FLOOR
FloorMeshes(stack) ==
    IF stack.floor # Null THEN <<addMesh("floor", <<>>, "BoxGeometry", material)>> ELSE <<>>

\* Math.sqrt of a non-negative integer, rounded down.
RECURSIVE SqrtBetween(_, _, _)
SqrtBetween(n, lo, hi) ==
    IF lo >= hi THEN lo
    ELSE LET mid == (lo + hi + 1) \div 2
         IN  IF mid * mid <= n THEN SqrtBetween(n, mid, hi) ELSE SqrtBetween(n, lo, mid - 1)

ISqrt(n) == SqrtBetween(n, 0, 46340)

\* GEO_OVERLAP = 0.002 scene units, as an IU numerator.
GEO_OVERLAP_IU == 5080

\* Mutant: offset rows keeping their last column.
createPerforatedWall_NoSkip(w, height, thick, cfg) ==
    LET hexR == (cfg.holeSize \div 2) + (IU_PER_MM \div 4)
        solidity == IF cfg.infill < 1 THEN 1 ELSE IF cfg.infill > 99 THEN 99 ELSE cfg.infill
        voidPercent == 100 - solidity
        centerSpacing == ((hexR \div 100) * ISqrt(300000000 \div voidPercent)) \div 10
        spacingX == centerSpacing
        spacingY == (centerSpacing \div 1000) * 866
        margin == (thick * 3) \div 2
        availW == w - (margin * 2)
        availH == height - (margin * 2)
        startX == -(w \div 2) + margin + hexR
        startY == margin + hexR
        cols == availW \div spacingX
        rows == availH \div spacingY
        cell(k) == [row |-> (k - 1) \div cols, col |-> (k - 1) % cols]
        hole(k) ==
            LET r == cell(k).row
                c == cell(k).col
            IN  [row |-> r, col |-> c, radius |-> Sc(hexR),
                 cx |-> Sc(startX + (c * spacingX) + (IF r % 2 = 1 THEN spacingX \div 2 ELSE 0)),
                 cy |-> Sc(startY + (r * spacingY))]
        emitted(h) ==
            /\ TRUE
            /\ ~(h.cx.num > (w \div 2) - margin \/ h.cy.num > height - margin)
    IN  [type |-> "ExtrudeGeometry", triangles |-> Triangles("ExtrudeGeometry"),
         w |-> Sc(w), height |-> Sc(height), margin |-> Sc(margin),
         spacingX |-> Sc(spacingX), spacingY |-> Sc(spacingY),
         startX |-> Sc(startX), startY |-> Sc(startY),
         cols |-> cols, rows |-> rows,
         holes |-> IF cols > 0 /\ rows > 0
                   THEN SelectSeq([k \in 1..(rows * cols) |-> hole(k)], emitted)
                   ELSE <<>>]

\* createPerforatedWall(w, height, thick): the panel with its hexagonal
\* holes, row by row.  Lengths are IU numerators of scene values.  The
\* irrational factors are rounded: sqrt(3 / voidFraction) to three decimals
\* and sqrt(3) / 2 to 0.866; infill is held in percent.
createPerforatedWall(w, height, thick, cfg) ==
    LET hexR == (cfg.holeSize \div 2) + (IU_PER_MM \div 4)
        solidity == IF cfg.infill < 1 THEN 1 ELSE IF cfg.infill > 99 THEN 99 ELSE cfg.infill
        voidPercent == 100 - solidity
        centerSpacing == ((hexR \div 100) * ISqrt(300000000 \div voidPercent)) \div 10
        spacingX == centerSpacing
        spacingY == (centerSpacing \div 1000) * 866
        margin == (thick * 3) \div 2
        availW == w - (margin * 2)
        availH == height - (margin * 2)
        startX == -(w \div 2) + margin + hexR
        startY == margin + hexR
        cols == availW \div spacingX
        rows == availH \div spacingY
        cell(k) == [row |-> (k - 1) \div cols, col |-> (k - 1) % cols]
        hole(k) ==
            LET r == cell(k).row
                c == cell(k).col
            IN  [row |-> r, col |-> c, radius |-> Sc(hexR),
                 cx |-> Sc(startX + (c * spacingX) + (IF r % 2 = 1 THEN spacingX \div 2 ELSE 0)),
                 cy |-> Sc(startY + (r * spacingY))]
        emitted(h) ==
            /\ ~(h.row % 2 = 1 /\ h.col = cols - 1)
            /\ ~(h.cx.num > (w \div 2) - margin \/ h.cy.num > height - margin)
    IN  [type |-> "ExtrudeGeometry", triangles |-> Triangles("ExtrudeGeometry"),
         w |-> Sc(w), height |-> Sc(height), margin |-> Sc(margin),
         spacingX |-> Sc(spacingX), spacingY |-> Sc(spacingY),
         startX |-> Sc(startX), startY |-> Sc(startY),
         cols |-> cols, rows |-> rows,
         holes |-> IF cols > 0 /\ rows > 0
                   THEN SelectSeq([k \in 1..(rows * cols) |-> hole(k)], emitted)
                   ELSE <<>>]

\* 3. WALLS: four perforated panels (front and back of the outer width, left
\* and right between them), or one extruded tube.
WallMeshes(cfg, lay) ==
    IF lay.stack.wall = Null THEN <<>>
    ELSE IF cfg.holes
    THEN LET h == lay.stack.wall.yMax.num - lay.stack.wall.yMin.num + GEO_OVERLAP_IU
             wallThick == cfg.wall
             fbGeo == createPerforatedWall(lay.outerW.num, h, wallThick, cfg)
             sideW == lay.outerD.num - ((wallThick * 205) \div 100)
             lrGeo == createPerforatedWall(sideW, h, wallThick, cfg)
         IN  << [addMesh("wallFront", <<>>, "ExtrudeGeometry", material) EXCEPT !.geometry = fbGeo],
                [addMesh("wallBack", <<>>, "ExtrudeGeometry", material) EXCEPT !.geometry = fbGeo],
                [addMesh("wallRight", <<>>, "ExtrudeGeometry", material) EXCEPT !.geometry = lrGeo],
                [addMesh("wallLeft", <<>>, "ExtrudeGeometry", material) EXCEPT !.geometry = lrGeo] >>
    ELSE << addMesh("wall", <<>>, "ExtrudeGeometry", material) >>

\* The box of one compartment wall: its centre (x, z) and its sizes along x
\* and z (IU numerators).  An x wall is wallThick wide and one cell long in z.
DividerBox(cfg, lay, w) ==
    IF w.axis = "x"
    THEN [x |-> Sc(boxOffsetX(lay) + (-(lay.outerW.num \div 2) + w.pos * IU_PER_MM)),
          z |-> Sc(-(lay.outerD.num \div 2) + w.seg * grid42_IU + (grid42_IU \div 2)),
          sizeX |-> Sc(cfg.wall), sizeZ |-> Sc(grid42_IU)]
    ELSE [x |-> Sc(boxOffsetX(lay) + (-(lay.outerW.num \div 2) + w.seg * grid42_IU
                                      + (grid42_IU \div 2))),
          z |-> Sc(-(lay.outerD.num \div 2) + w.pos * IU_PER_MM),
          sizeX |-> Sc(grid42_IU), sizeZ |-> Sc(cfg.wall)]

\* 3.5. COMPARTMENT DIVIDERS: one box per compartment wall; at is the box.
DividerMeshes(cfg, lay, walls) ==
    IF lay.stack.wall # Null /\ Len(walls) > 0
    THEN [k \in 1..Len(walls) |->
            addMesh("divider", DividerBox(cfg, lay, walls[k]), "BoxGeometry", material)]
    ELSE <<>>

\* 4. RAILS: two side spacers and a back spacer, two side caps and a back cap.
RailMeshes(stack) ==
    IF stack.rail # Null
    THEN << addMesh("sideSpacer", "left", "BoxGeometry", material),
            addMesh("sideSpacer", "right", "BoxGeometry", material),
            addMesh("spBack", <<>>, "BoxGeometry", material),
            addMesh("cSide", "left", "BoxGeometry", material),
            addMesh("cSide", "right", "BoxGeometry", material),
            addMesh("cBack", <<>>, "BoxGeometry", material) >>
    ELSE <<>>

\* 5. LIP
LipMeshes(stack) ==
    IF stack.lip # Null THEN <<addMesh("lip", <<>>, "BufferGeometry", material)>> ELSE <<>>

\* 6. LID GEOMETRY: plate and insert (step) or plate and stop tab (slide),
\* laid beside the box, built with lidMaterial.
LidMeshes(stack) ==
    IF stack.lid = Null THEN <<>>
    ELSE IF stack.lid.type = "step"
    THEN <<addMesh("plate", <<>>, "BoxGeometry", lidMaterial)>>
         \o (IF stack.lid.insertDepth.num > 0
             THEN <<addMesh("insert", <<>>, "BoxGeometry", lidMaterial)>>
             ELSE <<>>)
    ELSE IF stack.lid.type = "slide"
    THEN << addMesh("plate", <<>>, "BoxGeometry", lidMaterial),
            addMesh("hGeo", <<>>, "BoxGeometry", lidMaterial) >>
    ELSE <<>>

\* The body of the geometry effect after the group has been emptied: the
\* frame branch adds the frame and returns, otherwise the parts builder runs.
PartsBuilder(cfg, lay, walls) ==
    IF IsGridfinity(cfg) /\ cfg.gridfinityType = "frame"
    THEN <<addMesh("frame", <<>>, "ExtrudeGeometry", material)>>
    ELSE FeetMeshes(cfg, lay) \o FloorMeshes(lay.stack)
         \o WallMeshes(cfg, lay) \o DividerMeshes(cfg, lay, walls)
         \o RailMeshes(lay.stack) \o LipMeshes(lay.stack) \o LidMeshes(lay.stack)

\* while (group.children.length > 0) { c = group.children[0]; dispose its
\* geometry and material; group.remove(c) }
RECURSIVE ClearGroup(_)
ClearGroup(g) ==
    IF Len(g.children) > 0
    THEN LET c == g.children[1]
             geometryDisposed == c.geometry # Null
             materialDisposed == c.material # Null
             leaked == (IF c.geometry # Null /\ ~geometryDisposed THEN 1 ELSE 0)
                       + (IF c.material # Null /\ ~materialDisposed THEN 1 ELSE 0)
         IN  ClearGroup([children |-> Tail(g.children),
                         undisposed |-> g.undisposed + leaked])
    ELSE g

\* Mutant: the frame branch returning before the group is emptied.
GeometryEffect_FrameFirst(g, cfg, lay, walls) ==
    IF IsGridfinity(cfg) /\ cfg.gridfinityType = "frame"
    THEN [children |-> g.children \o PartsBuilder(cfg, lay, walls),
          undisposed |-> g.undisposed]
    ELSE LET cleared == ClearGroup(g)
         IN  [children |-> cleared.children \o PartsBuilder(cfg, lay, walls),
              undisposed |-> cleared.undisposed]

\* Mutant: no meshes for a layout that has errors.
GeometryEffect_ValidOnly(g, cfg, lay, walls) ==
    LET cleared == ClearGroup(g)
    IN  [children |-> IF lay.valid THEN PartsBuilder(cfg, lay, walls) ELSE <<>>,
         undisposed |-> cleared.undisposed]

\* useEffect(..., [layout, config, compartmentWalls]): one rebuild pass.
GeometryEffect(g, cfg, lay, walls) ==
    LET cleared == ClearGroup(g)
    IN  [children |-> cleared.children \o PartsBuilder(cfg, lay, walls),
         undisposed |-> cleared.undisposed]

\* Mutant: invisible meshes serialized too.
FacetsOf_Hidden(object) ==
    IF object.isMesh /\ object.geometry # Null
    THEN IF object.material # Null /\ object.material.type # "MeshStandardMaterial"
         THEN <<>>
         ELSE [i \in 1..object.geometry.triangles |-> "facet normal"]
    ELSE <<>>

\* The traverse callback of generateSTL on one object: one block
\* 'facet normal ... endfacet' per triangle, written here as its first line.
FacetsOf(object) ==
    IF object.isMesh /\ object.geometry # Null /\ object.visible
    THEN IF object.material # Null /\ object.material.type # "MeshStandardMaterial"
         THEN <<>>
         ELSE [i \in 1..object.geometry.triangles |-> "facet normal"]
    ELSE <<>>

RECURSIVE Traverse(_)
Traverse(objects) ==
    IF objects = <<>> THEN <<>>
    ELSE FacetsOf(Head(objects)) \o Traverse(Tail(objects))

\* The THREE.Group holding the model: not a mesh.
GroupObject == [isMesh |-> FALSE, visible |-> TRUE, part |-> "group", at |-> <<>>,
                geometry |-> Null, material |-> Null]

\* generateSTL(scene): scene.traverse visits the group, then its children.
generateSTL(children) ==
    <<"solid exported">> \o Traverse(<<GroupObject>> \o children) \o <<"endsolid exported">>

Init ==
    /\ \/ appMode \in {"in", "mm"}
          /\ config \in BoxConfigs \cup PerfConfigs \cup BigBoxConfigs
       \/ appMode = "gridfinity"
          /\ config \in GridConfigs \cup PerfConfigs \cup BigGridConfigs
    /\ layout = Null
    /\ compartmentWalls = <<>>
    /\ group = <<>>
    /\ undisposed = 0
    /\ stl = Null
    /\ hover = Null

\* const layout = useMemo(() => calculateConstraints({ ...config, appMode }), ...)
LayoutMemo ==
    /\ layout = Null
    /\ layout' = calculateConstraints(WithAppMode(config, appMode))
    /\ UNCHANGED <<config, appMode, compartmentWalls, group, undisposed, stl, hover>>

Next == LayoutMemo

Spec == Init /\ [][Next]_vars

(***************************************************************************)
(* The App: handlers, each followed by the re-render and its effects       *)
(***************************************************************************)
\* Bounds of the App specification.
MaxWalls == 1
MaxSceneObjects == 2

\* Prune effect: the walls still inside the grid.
PruneWalls(cfg, walls) ==
    LET inBounds(w) ==
            IF w.axis = "x"
            THEN w.pos < cfg.gridWidth * 42 /\ w.seg < cfg.gridDepth
            ELSE w.pos < cfg.gridDepth * 42 /\ w.seg < cfg.gridWidth
    IN  IF Len(walls) = 0 THEN walls ELSE SelectSeq(walls, inBounds)

\* The state after the effects of a render: lay is the layout memo, valid the
\* walls the prune effect leaves, passes the model group after the geometry
\* effect of every render it took.
AfterEffects(cfg, mode, lay, valid, passes) ==
    /\ config' = cfg
    /\ appMode' = mode
    /\ compartmentWalls' = valid
    /\ layout' = lay
    /\ group' = passes.children
    /\ undisposed' = passes.undisposed
    /\ stl' = Null
    /\ hover' = IF mode = "gridfinity" /\ cfg.gridfinityType = "bin"
                THEN hover ELSE Null

\* The geometry effect of the second render, taken when the prune effect
\* set shorter walls.
SecondPass(pass1, full, lay, walls, valid) ==
    IF Len(valid) # Len(walls)
    THEN GeometryEffect(pass1, full, lay, valid)
    ELSE pass1

Render(cfg, mode, walls, lay, valid) ==
    AfterEffects(cfg, mode, lay, valid,
                 SecondPass(GeometryEffect([children |-> group, undisposed |-> undisposed],
                                           WithAppMode(cfg, mode), lay, walls),
                            WithAppMode(cfg, mode), lay, walls, valid))

\* The render that follows setConfig / setAppMode / setCompartmentWalls and
\* its effects: the layout memo, the prune effect (when gridWidth or
\* gridDepth changed), the geometry effect, and, when the prune effect set
\* the walls, the second render with its geometry effect.  The render mounts
\* CompartmentEditor for a gridfinity bin only: its hover state is lost with
\* the unmount and starts at null again.
Commit(cfg, mode, walls) ==
    Render(cfg, mode, walls, calculateConstraints(WithAppMode(cfg, mode)),
           IF cfg.gridWidth # config.gridWidth \/ cfg.gridDepth # config.gridDepth
           THEN PruneWalls(cfg, walls) ELSE walls)

\* Mutant: the mode switch re-initialising the box dimensions.
setAppMode_ResetDims(v) ==
    Commit([config EXCEPT !.width = DefaultConfig.width,
                          !.depth = DefaultConfig.depth,
                          !.height = DefaultConfig.height],
           v, IF v # "gridfinity" THEN <<>> ELSE compartmentWalls)

\* Mutant: the mode switch leaving the walls as they are.
setAppMode_KeepWalls(v) ==
    Commit(config, v, compartmentWalls)

\* Mode control: setAppMode(v); if (v !== 'gridfinity') setCompartmentWalls([])
setAppMode(v) ==
    Commit(config, v, IF v # "gridfinity" THEN <<>> ELSE compartmentWalls)

\* The fields whose controls hand a number to updateConfig.
NumberKeys ==
    {"width", "depth", "height", "wall", "floor", "lidThickness", "lipDepth",
     "tolerance", "holeSize", "gridWidth", "gridDepth", "gridHeight", "infill"}

\* The value NaN of a control: no number of the model, and, as in the
\* source, neither below nor above zero for the test value < 0.
NaN == 2147483647

\* Mutant: updateConfig without the test value < 0.
updateConfig_AcceptNegative(key, value) ==
    IF key \in NumberKeys /\ value = NaN
    THEN UNCHANGED vars
    ELSE Commit([config EXCEPT ![key] = value], appMode, compartmentWalls)

\* updateConfig(key, value): a number that is NaN or negative is rejected.
updateConfig(key, value) ==
    IF key \in NumberKeys /\ (value = NaN \/ value < 0)
    THEN UNCHANGED vars
    ELSE Commit([config EXCEPT ![key] = value], appMode, compartmentWalls)

\* measureMode control (boxes only)
SetMeasureMode ==
    /\ appMode # "gridfinity"
    /\ \E v \in {"internal", "external"} : updateConfig("measureMode", v)

\* gridfinityType control: updateConfig, then the walls are emptied for a frame.
SetGridfinityType ==
    /\ appMode = "gridfinity"
    /\ \E v \in {"bin", "frame"} :
          Commit([config EXCEPT !.gridfinityType = v], appMode,
                 IF v # "bin" THEN <<>> ELSE compartmentWalls)

\* Unit counts entered in the App: below the defaults of 2 x 3.
GridUnits == {1, 2}

\* Width (Units) and Depth (Units) inputs
SetGridSize ==
    /\ appMode = "gridfinity"
    /\ \E key \in {"gridWidth", "gridDepth"}, v \in GridUnits : updateConfig(key, v)

\* Height input of a box: 0.1 in, 2.5 in, a negative entry, or NaN.
SetHeight ==
    /\ appMode # "gridfinity"
    /\ \E v \in {initIn(100), initIn(2500), -1, NaN} : updateConfig("height", v)

\* Hexagonal Perforations checkbox
SetHoles ==
    /\ appMode # "gridfinity" \/ config.gridfinityType = "bin"
    /\ updateConfig("holes", ~config.holes)

\* Lid checkbox and lid type control (boxes only)
SetLid ==
    /\ appMode # "gridfinity"
    /\ \/ updateConfig("lidEnabled", ~config.lidEnabled)
       \/ /\ config.lidEnabled
          /\ \E v \in {"step", "slide"} : updateConfig("lidType", v)

\* The wall segments the compartment editor offers: x walls on the interior
\* grid lines, one per cell in z, and z walls likewise.
CandidateWallsOf(gridWidth, gridDepth) ==
    {[axis |-> "x", pos |-> xi * 42, seg |-> seg] :
        xi \in 1..(gridWidth - 1), seg \in 0..(gridDepth - 1)}
    \cup {[axis |-> "z", pos |-> zi * 42, seg |-> seg] :
        zi \in 1..(gridDepth - 1), seg \in 0..(gridWidth - 1)}

CandidateWalls == CandidateWallsOf(config.gridWidth, config.gridDepth)

\* CompartmentEditor.handleMouseMove: the nearest candidate segment of the grid
\* of this render under the pointer, or null away from every grid line.
handleMouseMove ==
    /\ appMode = "gridfinity" /\ config.gridfinityType = "bin"
    /\ \E best \in CandidateWalls \cup {Null} : hover' = best
    /\ UNCHANGED <<config, appMode, layout, compartmentWalls, group, undisposed, stl>>

\* onMouseLeave={() => setHover(null)}
onMouseLeave ==
    /\ appMode = "gridfinity" /\ config.gridfinityType = "bin"
    /\ hover # Null
    /\ hover' = Null
    /\ UNCHANGED <<config, appMode, layout, compartmentWalls, group, undisposed, stl>>

\* toggleWall(axis, pos, seg): remove the wall when it exists, else append it.
toggleWall(w) ==
    LET others == SelectSeq(compartmentWalls, LAMBDA x : x # w)
    IN  IF Len(others) # Len(compartmentWalls)
        THEN Commit(config, appMode, others)
        ELSE /\ Len(compartmentWalls) < MaxWalls
             /\ Commit(config, appMode, Append(compartmentWalls, w))

\* CompartmentEditor.handleClick: if (hover) toggleWall(hover.axis, hover.pos, hover.seg)
handleClick ==
    /\ appMode = "gridfinity" /\ config.gridfinityType = "bin"
    /\ hover # Null
    /\ toggleWall(hover)

\* "Clear All Walls" button, rendered while walls.length > 0
ClearAllWalls ==
    /\ appMode = "gridfinity" /\ config.gridfinityType = "bin"
    /\ Len(compartmentWalls) > 0
    /\ Commit(config, appMode, <<>>)

\* One pass of the pointer over the editor: it enters, handleMouseMove puts
\* the hover on a segment of the grid on display, handleClick toggles that
\* segment, and onMouseLeave clears the hover.
ToggleWall ==
    /\ appMode = "gridfinity" /\ config.gridfinityType = "bin"
    /\ hover = Null
    /\ \E w \in CandidateWalls : toggleWall(w)

\* handleExport: serialize the model group; nothing else is consulted.
handleExport ==
    /\ stl' = generateSTL(group)
    /\ UNCHANGED <<config, appMode, layout, compartmentWalls, group, undisposed, hover>>

\* After mount: the default state, its layout and the first rebuild pass.
InitApp ==
    /\ config = DefaultConfig
    /\ appMode = "in"
    /\ compartmentWalls = <<>>
    /\ layout = calculateConstraints(WithAppMode(config, appMode))
    /\ group = GeometryEffect([children |-> <<>>, undisposed |-> 0],
                              WithAppMode(config, appMode), layout, <<>>).children
    /\ undisposed = 0
    /\ stl = Null
    /\ hover = Null

SwitchMode ==
    /\ \E v \in {"in", "mm", "gridfinity"} : setAppMode(v)

NextApp ==
    \/ SwitchMode
    \/ SetMeasureMode
    \/ SetGridfinityType
    \/ SetGridSize
    \/ SetHeight
    \/ SetHoles
    \/ SetLid
    \/ ToggleWall
    \/ ClearAllWalls
    \/ handleExport

SpecApp == InitApp /\ [][NextApp]_vars

(***************************************************************************)
(* The compartment editor, event by event: the pointer over the editor,    *)
(* the grid size inputs, and the controls that mount and unmount it        *)
(***************************************************************************)
NextEditor ==
    \/ SwitchMode
    \/ SetGridfinityType
    \/ SetGridSize
    \/ handleMouseMove
    \/ onMouseLeave
    \/ handleClick
    \/ ClearAllWalls

SpecEditor == InitApp /\ [][NextEditor]_vars

(***************************************************************************)
(* The first render of the App in an arbitrary state: layout memo and      *)
(* geometry effect on a Configuration and wall list the controls can reach *)
(***************************************************************************)
\* Perforated boxes: narrow and wide, low and high, thin and thick walls,
\* small and large holes, sparse and dense patterns.
PanelConfigs ==
    [measureMode : {"internal"}, gridfinityType : {"bin"},
     lidEnabled : {FALSE}, lidType : {"step"},
     width : {IU_PER_MM, initIn(3500)}, depth : {DefaultConfig.depth},
     height : {initIn(100), initIn(2000)},
     wall : {initIn(80), initIn(500)}, floor : {DefaultConfig.floor},
     lidThickness : {DefaultConfig.lidThickness}, lipDepth : {DefaultConfig.lipDepth},
     tolerance : {DefaultConfig.tolerance}, holeSize : {initIn(250), initIn(1000)},
     gridWidth : {DefaultConfig.gridWidth}, gridDepth : {DefaultConfig.gridDepth},
     gridHeight : {DefaultConfig.gridHeight},
     holes : {TRUE}, infill : {10, 50}]

\* Gridfinity parts of every grid size of the model.
TilingConfigs ==
    [measureMode : {"internal"}, gridfinityType : {"bin", "frame"},
     lidEnabled : {FALSE}, lidType : {"step"},
     width : {DefaultConfig.width}, depth : {DefaultConfig.depth},
     height : {DefaultConfig.height},
     wall : {initIn(80), 2 * IU_PER_MM}, floor : {DefaultConfig.floor},
     lidThickness : {DefaultConfig.lidThickness}, lipDepth : {DefaultConfig.lipDepth},
     tolerance : {DefaultConfig.tolerance}, holeSize : {DefaultConfig.holeSize},
     gridWidth : 1..MaxGridWidth, gridDepth : 1..MaxGridDepth,
     gridHeight : {DefaultConfig.gridHeight},
     holes : {FALSE}, infill : {DefaultConfig.infill}]

\* The wall lists of up to n distinct walls out of a candidate set.
RECURSIVE WallLists(_, _)
WallLists(candidates, n) ==
    IF n = 0 THEN {<<>>}
    ELSE LET shorter == WallLists(candidates, n - 1)
             longest == {q \in shorter : Len(q) = n - 1}
             used(q) == {q[i] : i \in 1..Len(q)}
         IN  shorter \cup {Append(q, w) : <<q, w>> \in
                              {p \in longest \X candidates : p[2] \notin used(p[1])}}

InitBuild ==
    /\ \/ /\ appMode \in {"in", "mm"}
          /\ config \in PanelConfigs
          /\ compartmentWalls = <<>>
       \/ /\ appMode = "gridfinity"
          /\ config \in TilingConfigs \cup PanelConfigs
          /\ compartmentWalls \in
                IF config.gridfinityType = "bin"
                THEN WallLists(CandidateWallsOf(config.gridWidth, config.gridDepth), MaxWalls)
                ELSE {<<>>}
    /\ layout = Null
    /\ group = <<>>
    /\ undisposed = 0
    /\ stl = Null
    /\ hover = Null

\* The render after mount: calculateConstraints, then the geometry effect.
Mount ==
    /\ layout = Null
    /\ Commit(config, appMode, compartmentWalls)

SpecBuild == InitBuild /\ [][Mount]_vars

(***************************************************************************)
(* The serializer alone, on arbitrary scenes                               *)
(***************************************************************************)
\* Objects a scene may hold: meshes and other objects, visible or not, with
\* or without geometry, with no material, the two model materials, or a
\* material of another class.
SceneObjects ==
    [isMesh : BOOLEAN, visible : BOOLEAN, part : {"object"}, at : {<<>>},
     geometry : {Null, [type |-> "BoxGeometry", triangles |-> Triangles("BoxGeometry")],
                 [type |-> "BufferGeometry", triangles |-> 1]},
     material : {Null, material, lidMaterial, lidMaterial_Basic}]

RECURSIVE Scenes(_)
Scenes(n) ==
    IF n = 0 THEN {<<>>}
    ELSE Scenes(n - 1)
         \cup {Append(sc, o) : sc \in {x \in Scenes(n - 1) : Len(x) = n - 1},
                               o \in SceneObjects}

InitSTL ==
    /\ config = DefaultConfig
    /\ appMode = "in"
    /\ compartmentWalls = <<>>
    /\ layout = Null
    /\ group \in Scenes(MaxSceneObjects)
    /\ undisposed = 0
    /\ stl = Null
    /\ hover = Null

SpecSTL == InitSTL /\ [][handleExport]_vars

(***************************************************************************)
(* Properties of the Layout                                                *)
(***************************************************************************)
\* The Configuration the engine was given.
Given == WithAppMode(config, appMode)

Computed == layout # Null

HasError(msg) == \E i \in DOMAIN layout.errors : layout.errors[i] = msg

\* a <= b for num / IU_PER_IN^exp values of any two scales.
RECURSIVE SceneLeq(_, _)
SceneLeq(a, b) ==
    IF a.exp = b.exp THEN a.num <= b.num
    ELSE IF a.exp < b.exp
         THEN SceneLeq(a, [num |-> b.num \div IU_PER_IN, exp |-> b.exp - 1])
         ELSE SceneLeq([num |-> -((-a.num) \div IU_PER_IN), exp |-> a.exp - 1], b)

\* x millimetres, x given in tenths of a millimetre, as a scene value.
SceneOfTenthMm(x) == toScene(Num(x * (IU_PER_MM \div 10)))

\* Height of the wall segment in IU (both bounds are one conversion deep).
WallHeightIU == layout.stack.wall.yMax.num - layout.stack.wall.yMin.num

IsBox == appMode # "gridfinity"

IsInternal == IsBox /\ config.measureMode = "internal"

IsExternal == IsBox /\ config.measureMode # "internal"

\* C1: the Layout has valid = false exactly when its errors list is non-empty.
C1_ValidIffErrors ==
    Computed => ((layout.valid = FALSE) <=> (layout.errors # <<>>))

C1_Witness ==
    Computed /\ layout.valid = FALSE /\ Len(layout.errors) = 2

\* C2: in a valid Layout the segments are stacked in the order feet, floor,
\* wall, top feature, each one starting where the one below it ends.
C2_Contiguous ==
    (Computed /\ layout.valid) =>
        LET st == layout.stack IN
        /\ st.feet # Null =>
              /\ SceneLeq(st.feet.yMin, st.feet.yMax)
              /\ SceneEq(st.feet.yMax, st.floor.yMin)
        /\ SceneLeq(st.floor.yMin, st.floor.yMax)
        /\ SceneEq(st.floor.yMax, st.wall.yMin)
        /\ SceneLeq(st.wall.yMin, st.wall.yMax)
        /\ st.lip # Null =>
              /\ SceneEq(st.wall.yMax, st.lip.yMin)
              /\ SceneLeq(st.lip.yMin, st.lip.yMax)
        /\ st.rail # Null =>
              /\ SceneEq(st.wall.yMax, st.rail.spacer.yMin)
              /\ SceneLeq(st.rail.spacer.yMin, st.rail.spacer.yMax)
              /\ SceneEq(st.rail.spacer.yMax, st.rail.cap.yMin)
              /\ SceneLeq(st.rail.cap.yMin, st.rail.cap.yMax)
        /\ (st.lid # Null /\ st.rail = Null) => SceneEq(st.wall.yMax, st.lid.yPos)

C2_Witness ==
    /\ Computed /\ layout.valid
    /\ layout.stack.feet # Null /\ layout.stack.lip # Null
    /\ layout.stack.feet.yMax.num > 0
    /\ layout.stack.floor.yMin = layout.stack.feet.yMax

\* C3: in gridfinity mode bodyH is gridHeight * 7 mm, the wall ends at bodyH
\* and totalH is gridHeight * 7 mm + 4.4 mm, whatever the wall and floor.
C3_GridfinityHeight ==
    (Computed /\ appMode = "gridfinity") =>
        /\ SceneEq(layout.bodyH, SceneOfTenthMm(config.gridHeight * 70))
        /\ SceneEq(layout.stack.wall.yMax, layout.bodyH)
        /\ SceneEq(layout.totalH, SceneOfTenthMm(config.gridHeight * 70 + 44))

C3_Witness ==
    /\ Computed /\ appMode = "gridfinity" /\ config.gridHeight = 6
    /\ SceneEq(layout.bodyH, SceneOfTenthMm(420))
    /\ SceneEq(layout.totalH, SceneOfTenthMm(464))
    /\ SceneEq(layout.stack.feet.yMax, toScene(Num(475000)))

\* C4: in gridfinity mode outer = grid units * 42 mm - 0.5 mm on each axis and
\* inner = outer - 2 * wall, whatever width, depth and measureMode hold.
C4_GridFootprint ==
    (Computed /\ appMode = "gridfinity") =>
        /\ SceneEq(layout.outerW, SceneOfTenthMm(config.gridWidth * 420 - 5))
        /\ SceneEq(layout.outerD, SceneOfTenthMm(config.gridDepth * 420 - 5))
        /\ SceneEq(layout.innerW,
                   toScene(Num(config.gridWidth * 42 * IU_PER_MM - (IU_PER_MM \div 2)
                               - 2 * config.wall)))
        /\ SceneEq(layout.innerD,
                   toScene(Num(config.gridDepth * 42 * IU_PER_MM - (IU_PER_MM \div 2)
                               - 2 * config.wall)))

C4_Witness ==
    /\ Computed /\ appMode = "gridfinity"
    /\ config.gridWidth = 2 /\ config.gridDepth = 1
    /\ config.measureMode = "external" /\ config.width = IU_PER_MM
    /\ SceneEq(layout.outerW, SceneOfTenthMm(835))
    /\ SceneEq(layout.outerD, SceneOfTenthMm(415))

\* C5: outside gridfinity mode, internal measurement gives inner = requested
\* and outer = inner + 2 * wall; external measurement gives outer = requested
\* and inner = max(0, outer - 2 * wall).
C5_BoxFootprint ==
    (Computed /\ IsBox) =>
        IF config.measureMode = "internal"
        THEN /\ SceneEq(layout.innerW, toScene(Num(config.width)))
             /\ SceneEq(layout.innerD, toScene(Num(config.depth)))
             /\ layout.outerW.num = layout.innerW.num + 2 * config.wall
             /\ layout.outerD.num = layout.innerD.num + 2 * config.wall
        ELSE /\ SceneEq(layout.outerW, toScene(Num(config.width)))
             /\ SceneEq(layout.outerD, toScene(Num(config.depth)))
             /\ layout.innerW.num = Max(0, layout.outerW.num - 2 * config.wall)
             /\ layout.innerD.num = Max(0, layout.outerD.num - 2 * config.wall)

C5_Witness ==
    /\ Computed /\ IsInternal
    /\ config.width = initIn(3500) /\ config.depth = initIn(5500)
    /\ config.wall = initIn(80)
    /\ SceneEq(layout.outerW, toScene(Num(initIn(3660))))
    /\ SceneEq(layout.outerD, toScene(Num(initIn(5660))))

\* C6 (as claimed): whenever the computed inner width or depth is <= 0 an
\* error is recorded and the returned innerW and innerD are clamped to a
\* strictly positive value, so the Layout never holds a zero or negative
\* inner dimension.
C6_InnerPositive ==
    Computed =>
        /\ layout.innerW.num > 0 /\ layout.innerD.num > 0
        /\ (\/ (appMode = "gridfinity"
                /\ (\/ config.gridWidth * 42 * IU_PER_MM - (IU_PER_MM \div 2)
                       - 2 * config.wall <= 0
                    \/ config.gridDepth * 42 * IU_PER_MM - (IU_PER_MM \div 2)
                       - 2 * config.wall <= 0))
            \/ (IsInternal /\ (config.width <= 0 \/ config.depth <= 0))
            \/ (IsExternal /\ (config.width - 2 * config.wall <= 0
                               \/ config.depth - 2 * config.wall <= 0)))
           => HasError(ErrWalls)

\* C7 (as claimed): in gridfinity mode, when gridHeight * 7 mm minus feet and
\* floor is below 0.1 mm, the unit-count error is recorded and the wall
\* height is clamped, so the wall segment is never lower than 0.1 mm.
C7_GridWallClamped ==
    (Computed /\ appMode = "gridfinity") =>
        /\ WallHeightIU >= IU_PER_MM \div 10
        /\ (config.gridHeight * 7 * IU_PER_MM - layout.stack.wall.yMin.num
               < IU_PER_MM \div 10) => HasError(ErrUnits)

\* The lid stack above an external-mode wall: slide lid lidThickness +
\* tolerance + 2.0 mm rail cap, step lid lidThickness, no lid nothing.
LidStackAbove ==
    IF ~config.lidEnabled THEN 0
    ELSE IF config.lidType = "slide"
         THEN config.lidThickness + config.tolerance + 2 * IU_PER_MM
         ELSE config.lidThickness

\* Requested height minus floor minus lid stack.
ExternalRemainder == config.height - config.floor - LidStackAbove

\* C8 (as claimed): in external mode the wall height is the remainder
\* height - floor - lid stack; when the remainder is <= 0 the 'too short'
\* error is recorded, valid is false and the wall height is 0.1 mm.
C8_Original ==
    (Computed /\ IsExternal) =>
        /\ ExternalRemainder > 0 => WallHeightIU = ExternalRemainder
        /\ ExternalRemainder <= 0 =>
              /\ HasError(ErrShort) /\ layout.valid = FALSE
              /\ WallHeightIU = IU_PER_MM \div 10

\* C8 (amended): in external mode the wall height is the larger of 0.1 mm and
\* the remainder height - floor - lid stack (a remainder between 0 and
\* 0.1 mm is raised to 0.1 mm without an error); when the remainder is <= 0
\* the 'too short' error is recorded and valid is false.
C8_ExternalWall ==
    (Computed /\ IsExternal) =>
        /\ WallHeightIU = Max(IU_PER_MM \div 10, ExternalRemainder)
        /\ ExternalRemainder <= 0 => (HasError(ErrShort) /\ layout.valid = FALSE)

C8_Witness ==
    /\ Computed /\ IsExternal /\ config.lidEnabled /\ config.lidType = "slide"
    /\ ExternalRemainder <= 0
    /\ HasError(ErrShort) /\ WallHeightIU = IU_PER_MM \div 10

\* The configuration of C9: external mode, height 0.1 in, floor 0.08 in, no lid.
C9_Config ==
    /\ IsExternal /\ config.height = initIn(100) /\ config.floor = initIn(80)
    /\ ~config.lidEnabled

\* C9 (as claimed): for that configuration errors holds the 'too short'
\* message, valid is false and the wall height is the 0.1 mm threshold.
C9_Original ==
    (Computed /\ C9_Config) =>
        /\ HasError(ErrShort) /\ layout.valid = FALSE
        /\ WallHeightIU = IU_PER_MM \div 10

\* C9 (amended): for that configuration the remainder is 0.02 in > 0, so no
\* 'too short' error is recorded and the wall height is 0.02 in; the Layout
\* is valid unless the walls are too thick for the width/depth.
C9_ExternalShort ==
    (Computed /\ C9_Config) =>
        /\ ~HasError(ErrShort)
        /\ WallHeightIU = initIn(20)
        /\ layout.valid = FALSE <=> HasError(ErrWalls)

C9_Witness ==
    Computed /\ C9_Config /\ layout.valid /\ layout.errors = <<>>

\* C10: in internal mode the wall height is the requested height, plus
\* lipDepth exactly when a step lid is enabled, and totalH is floor + wall
\* height + top feature (slide: lidThickness + tolerance + 2.0 mm rail cap,
\* step: lidThickness, no lid: nothing).
C10_InternalWall ==
    (Computed /\ IsInternal) =>
        /\ WallHeightIU = config.height
              + (IF config.lidEnabled /\ config.lidType = "step"
                 THEN config.lipDepth ELSE 0)
        /\ SceneEq(layout.totalH,
                   toScene(Num(config.floor + WallHeightIU + LidStackAbove)))

C10_Witness ==
    /\ Computed /\ IsInternal /\ config.lidEnabled /\ config.lidType = "step"
    /\ WallHeightIU = config.height + config.lipDepth
    /\ config.lipDepth > 0

\* C11 (as claimed): innerH is wall.yMax - floor.yMax, in the scene units of
\* the segment bounds (one conversion from internal units).
C11_InnerHeight ==
    Computed =>
        SceneEq(layout.innerH,
                NumSub(layout.stack.wall.yMax, layout.stack.floor.yMax))

WarningKeys == DOMAIN layout.warnings

WithoutWarnings(l) == [k \in DOMAIN l \ {"warnings"} |-> l[k]]

\* C13: each thinness, lid and perforation warning is present exactly under
\* its condition; valid follows the errors alone, and the perforation
\* fields, which only produce warnings, change nothing else in the Layout.
C13_Warnings ==
    Computed =>
        /\ ("wall" \in WarningKeys) <=> (config.wall < 8 * (IU_PER_MM \div 10))
        /\ ("floor" \in WarningKeys) <=> (config.floor < 8 * (IU_PER_MM \div 10))
        /\ ("tolerance" \in WarningKeys) <=> (config.lidEnabled /\ config.tolerance = 0)
        /\ ("lidThickness" \in WarningKeys)
              <=> (config.lidEnabled /\ config.lidThickness < 4 * (IU_PER_MM \div 10))
        /\ ("holeSize" \in WarningKeys) <=> (config.holes /\ config.holeSize < 2 * IU_PER_MM)
        /\ ("infill" \in WarningKeys) <=> (config.holes /\ config.infill < 25)
        /\ layout.valid <=> (layout.errors = <<>>)
        /\ WithoutWarnings(layout)
              = WithoutWarnings(calculateConstraints(
                    [Given EXCEPT !.holes = FALSE,
                                  !.holeSize = DefaultConfig.holeSize,
                                  !.infill = DefaultConfig.infill]))

C13_Witness ==
    /\ Computed /\ layout.valid
    /\ {"wall", "floor", "holeSize", "infill"} \subseteq WarningKeys
    /\ config.lidEnabled /\ "tolerance" \notin WarningKeys

\* C14 (as claimed): whenever outerW, outerD, the total height of a box or
\* the gridfinity stacking height exceeds 250 mm, the warnings map holds the
\* build-volume warning of the corresponding field.
C14_BedWarnings ==
    Computed =>
        /\ layout.outerW.num > 250 * IU_PER_MM =>
              (IF appMode = "gridfinity" THEN "gridWidth" ELSE "width") \in WarningKeys
        /\ layout.outerD.num > 250 * IU_PER_MM =>
              (IF appMode = "gridfinity" THEN "gridDepth" ELSE "depth") \in WarningKeys
        /\ (IsBox /\ layout.totalH.num > 250 * IU_PER_MM) => "height" \in WarningKeys
        /\ (appMode = "gridfinity" /\ config.gridHeight * 7 * IU_PER_MM > 250 * IU_PER_MM)
              => "gridHeight" \in WarningKeys

IsBin == appMode = "gridfinity" /\ config.gridfinityType = "bin"

\* Entrance (top) level of the lip cavity of the computed bin.
LipEntrance == LipInnerLevels(layout.outerW, layout.outerD)[4]

RECURSIVE SumSeq(_)
SumSeq(q) == IF q = <<>> THEN 0 ELSE Head(q) + SumSeq(Tail(q))

\* Sum of the triangle counts of the objects that satisfy P (P implies a
\* geometry).
TrianglesWhere(objects, P(_)) ==
    SumSeq([i \in 1..Len(objects) |->
              IF P(objects[i]) THEN objects[i].geometry.triangles ELSE 0])

CountLines(out, line) == Cardinality({i \in 1..Len(out) : out[i] = line})

Exported == stl # Null

Facets == CountLines(stl, "facet normal")

IsVisibleMesh(o) == o.isMesh /\ o.geometry # Null /\ o.visible

\* What the serializer does not skip: a visible mesh without material or
\* with a MeshStandardMaterial.
IsStandard(o) ==
    IsVisibleMesh(o) /\ (o.material = Null \/ o.material.type = "MeshStandardMaterial")

IsLid(o) == IsVisibleMesh(o) /\ o.material = lidMaterial

IsStructural(o) == IsStandard(o) /\ o.material # lidMaterial

HasPart(part) == \E i \in 1..Len(group) : group[i].part = part

IsFrame == appMode = "gridfinity" /\ config.gridfinityType = "frame"

\* C15: errors and warnings never block the pipeline: the Layout always has
\* a floor and a wall segment, the rebuild pass has emitted the part meshes
\* (floor and walls, or the frame), the export handler is never refused and
\* what it serializes has facets, whether or not the Layout is valid.
C15_NeverBlocked ==
    /\ layout.stack.floor # Null
    /\ layout.stack.wall # Null
    /\ IF IsFrame THEN HasPart("frame")
       ELSE HasPart("floor") /\ (HasPart("wall") \/ HasPart("wallFront"))
    /\ ENABLED handleExport
    /\ Exported => Facets > 0 /\ Facets = TrianglesWhere(group, IsVisibleMesh)

C15_Witness ==
    /\ ~layout.valid
    /\ layout.errors # <<>>
    /\ Exported
    /\ Facets > 0
    /\ HasPart("floor") /\ HasPart("wall")

\* C16 (as claimed): meshes built with the lid material contribute no
\* facets: the export equals the export of the group without them.
C16_Original ==
    Exported => stl = generateSTL(SelectSeq(group, LAMBDA o : o.material # lidMaterial))

\* C16 (amended): every mesh of the model group is visible and built with a
\* MeshStandardMaterial, material and lidMaterial alike, so the serializer
\* exports all of them: the lid plate, insert and stop tab contribute their
\* triangles on top of those of the structural meshes.
C16_LidExported ==
    /\ \A i \in 1..Len(group) :
          /\ IsVisibleMesh(group[i])
          /\ group[i].material \in {material, lidMaterial}
          /\ group[i].material.type = "MeshStandardMaterial"
    /\ Exported =>
          /\ Facets = TrianglesWhere(group, IsStructural) + TrianglesWhere(group, IsLid)
          /\ layout.stack.lid # Null =>
                TrianglesWhere(group, IsLid) = 2 * Triangles("BoxGeometry")

C16_Witness ==
    /\ Exported
    /\ layout.stack.lid # Null /\ layout.stack.lid.type = "slide"
    /\ HasPart("plate") /\ HasPart("hGeo")
    /\ Facets > TrianglesWhere(group, IsStructural)

\* C17 (as claimed): the facet count is the sum of the triangle counts of
\* the visible structural meshes, between one 'solid' and one 'endsolid'.
C17_Original ==
    Exported =>
        /\ Facets = TrianglesWhere(group, IsStructural)
        /\ CountLines(stl, "solid exported") = 1
        /\ CountLines(stl, "endsolid exported") = 1

\* C17 (amended): the facet count is the sum of the triangle counts of all
\* visible meshes whose material is a MeshStandardMaterial or absent (lid
\* meshes included), between exactly one 'solid' line, the first, and one
\* 'endsolid' line, the last; invisible meshes, non-mesh objects and meshes
\* of another material class add no facets.
C17_Conservation ==
    Exported =>
        /\ Facets = TrianglesWhere(group, IsStandard)
        /\ CountLines(stl, "solid exported") = 1
        /\ CountLines(stl, "endsolid exported") = 1
        /\ Head(stl) = "solid exported"
        /\ stl[Len(stl)] = "endsolid exported"
        /\ Len(stl) = Facets + 2
        /\ stl = generateSTL(SelectSeq(group, IsStandard))

C17_Witness ==
    /\ Exported
    /\ Len(group) = 2
    /\ IsLid(group[1])
    /\ group[2].isMesh /\ ~group[2].visible /\ group[2].geometry # Null
    /\ Facets = Triangles("BoxGeometry")

\* C19: after every handler the model group holds exactly the meshes of the
\* latest rebuild pass, nothing of an earlier pass is left in it, and nothing
\* was removed without disposing its geometry and material; the frame
\* branch included.
C19_LatestPass ==
    /\ group = PartsBuilder(WithAppMode(config, appMode), layout, compartmentWalls)
    /\ undisposed = 0

C19_Witness ==
    /\ IsFrame
    /\ Len(group) = 1
    /\ group[1].part = "frame"
    /\ undisposed = 0

DimensionKeys ==
    {"width", "depth", "height", "wall", "floor", "lidThickness", "lipDepth",
     "tolerance", "holeSize"}

\* C20: a switch of the mode leaves every dimensional field of the
\* Configuration as it was, a switch between inch and mm leaves the Layout
\* as it was, and the Layouts of the Configuration in inch mode and in mm
\* mode are the same.
C20_ModeSwitch ==
    [][ appMode' # appMode =>
          /\ \A k \in DimensionKeys : config'[k] = config[k]
          /\ ({appMode, appMode'} = {"in", "mm"}) => layout' = layout
          /\ calculateConstraints(WithAppMode(config', "in"))
                = calculateConstraints(WithAppMode(config', "mm")) ]_vars

C20_Witness ==
    /\ appMode = "mm"
    /\ config.height = initIn(100)
    /\ config.measureMode = "external"
    /\ layout = calculateConstraints(WithAppMode(config, "in"))

(***************************************************************************)
(* Segments of the stack                                                   *)
(***************************************************************************)
Stack == layout.stack

\* C21: the optional segments follow the mode: feet iff gridfinity bin, lip
\* iff gridfinity, rail iff a slide lid is enabled on a box, lid iff a lid is
\* enabled on a box; so exactly one of rail+lid, lip, lid alone or nothing
\* sits above the wall, and a gridfinity Layout has neither lid nor rail.
C21_Segments ==
    Computed =>
        /\ (Stack.feet # Null) <=> (appMode = "gridfinity" /\ config.gridfinityType = "bin")
        /\ (Stack.lip # Null) <=> (appMode = "gridfinity")
        /\ (Stack.rail # Null) <=> (IsBox /\ config.lidEnabled /\ config.lidType = "slide")
        /\ (Stack.lid # Null) <=> (IsBox /\ config.lidEnabled)
        /\ Cardinality({f \in {"railLid", "lip", "lidAlone", "none"} :
              \/ f = "railLid" /\ Stack.rail # Null /\ Stack.lid # Null /\ Stack.lip = Null
              \/ f = "lip" /\ Stack.lip # Null /\ Stack.rail = Null /\ Stack.lid = Null
              \/ f = "lidAlone" /\ Stack.lid # Null /\ Stack.rail = Null /\ Stack.lip = Null
              \/ f = "none" /\ Stack.lid = Null /\ Stack.rail = Null /\ Stack.lip = Null}) = 1
        /\ appMode = "gridfinity" => (Stack.lid = Null /\ Stack.rail = Null)

C21_Witness ==
    /\ Computed /\ appMode = "gridfinity" /\ config.lidEnabled
    /\ Stack.lip # Null /\ Stack.lid = Null /\ Stack.rail = Null /\ Stack.feet # Null

\* C22 (as claimed): the cursor never decreases:
\* 0 <= floor.yMin <= floor.yMax = wall.yMin <= wall.yMax <= totalH.
C22_Monotone ==
    Computed =>
        /\ SceneLeq(Num(0), Stack.floor.yMin)
        /\ SceneLeq(Stack.floor.yMin, Stack.floor.yMax)
        /\ SceneEq(Stack.floor.yMax, Stack.wall.yMin)
        /\ SceneLeq(Stack.wall.yMin, Stack.wall.yMax)
        /\ SceneLeq(Stack.wall.yMax, layout.totalH)

\* C23: with a slide lid the wall is followed by a spacer of lidThickness +
\* tolerance and a 2.0 mm rail cap, totalH = wall.yMax + lidThickness +
\* tolerance + 2.0 mm, and the lid's yPos = spacer start + lidThickness / 2
\* lies inside the spacer; with a step lid yPos = wall.yMax and
\* totalH = wall.yMax + lidThickness.
C23_LidStack ==
    (Computed /\ IsBox /\ config.lidEnabled) =>
        LET top == Stack.wall.yMax.num
        IN  IF config.lidType = "slide"
            THEN /\ Stack.rail.spacer.yMin = Stack.wall.yMax
                 /\ Stack.rail.spacer.yMax.num = top + config.lidThickness + config.tolerance
                 /\ Stack.rail.cap.yMin = Stack.rail.spacer.yMax
                 /\ Stack.rail.cap.yMax.num = Stack.rail.cap.yMin.num + 2 * IU_PER_MM
                 /\ layout.totalH.num
                       = top + config.lidThickness + config.tolerance + 2 * IU_PER_MM
                 /\ layout.totalH = Stack.rail.cap.yMax
                 /\ 2 * Stack.lid.yPos.num = 2 * top + config.lidThickness
                 /\ SceneLeq(Stack.rail.spacer.yMin, Stack.lid.yPos)
                 /\ SceneLeq(Stack.lid.yPos, Stack.rail.spacer.yMax)
            ELSE /\ Stack.lid.yPos = Stack.wall.yMax
                 /\ layout.totalH.num = top + config.lidThickness
                 /\ Stack.rail = Null

C23_Witness ==
    /\ Computed /\ IsBox /\ config.lidEnabled /\ config.lidType = "slide"
    /\ config.tolerance = 0
    /\ Stack.lid.type = "slide"
    /\ layout.totalH.num = Stack.wall.yMax.num + config.lidThickness + 2 * IU_PER_MM

\* C26 (as claimed): in external mode a valid Layout has totalH equal to the
\* requested height.
C26_Original ==
    (Computed /\ IsExternal /\ layout.valid) => SceneEq(layout.totalH, toScene(Num(config.height)))

\* C26 (amended): in external mode a valid Layout has totalH equal to the
\* requested height when the remainder height - floor - lid stack is at
\* least 0.1 mm; a remainder between 0 and 0.1 mm is raised to 0.1 mm
\* without an error and totalH exceeds the requested height by the
\* difference, less than 0.1 mm.
C26_ExternalTotal ==
    (Computed /\ IsExternal /\ layout.valid) =>
        /\ ExternalRemainder > 0
        /\ IF ExternalRemainder >= MinWallH_IU
           THEN SceneEq(layout.totalH, toScene(Num(config.height)))
           ELSE /\ layout.totalH.num = config.height + (MinWallH_IU - ExternalRemainder)
                /\ layout.totalH.num < config.height + MinWallH_IU

C26_Witness ==
    /\ Computed /\ IsExternal /\ layout.valid
    /\ config.lidEnabled /\ config.lidType = "slide"
    /\ ExternalRemainder >= MinWallH_IU
    /\ layout.totalH.num = config.height

(***************************************************************************)
(* Placement of the parts                                                  *)
(***************************************************************************)
PartsNamed(part) == SelectSeq(group, LAMBDA o : o.part = part)

\* Centre of cell i out of n on the nominal 42 mm pitch, from the bin centre.
NominalCentre(n, i) == (-(n * 21) + 21 + 42 * i) * IU_PER_MM

NominalCentres ==
    {[x |-> Sc(boxOffsetX(layout) + NominalCentre(config.gridWidth, i)),
      z |-> Sc(NominalCentre(config.gridDepth, j))] :
        i \in 0..(config.gridWidth - 1), j \in 0..(config.gridDepth - 1)}

\* C24: a gridfinity bin gets exactly gridWidth * gridDepth feet, one on each
\* centre of the nominal 42 mm pitch measured from the bin centre, whatever
\* the outer footprint is after the 0.5 mm clearance; a Layout without a feet
\* segment gets no foot.
C24_Feet ==
    layout # Null =>
        LET feet == PartsNamed("foot")
        IN  /\ IsBin =>
                /\ Len(feet) = config.gridWidth * config.gridDepth
                /\ {feet[k].at : k \in 1..Len(feet)} = NominalCentres
                /\ Cardinality(NominalCentres) = config.gridWidth * config.gridDepth
            /\ Stack.feet = Null => Len(feet) = 0

C24_Witness ==
    /\ layout # Null
    /\ IsBin
    /\ config.gridWidth = 2
    /\ config.gridDepth = 2
    /\ Len(PartsNamed("foot")) = 4
    /\ layout.outerW.num = 2 * grid42_IU - (IU_PER_MM \div 2)

\* C29: every divider of an in-bounds wall lies within the outer footprint
\* of the bin: measured from the bin centre, its extent in x stays within
\* outerW / 2 and its extent in z within outerD / 2.
C29_DividersInside ==
    layout # Null =>
        \A k \in 1..Len(group) :
            group[k].part = "divider" =>
                LET box == group[k].at
                    dx == box.x.num - boxOffsetX(layout)
                    dz == box.z.num
                    abs(v) == IF v < 0 THEN -v ELSE v
                IN  /\ 2 * abs(dx) + box.sizeX.num <= layout.outerW.num
                    /\ 2 * abs(dz) + box.sizeZ.num <= layout.outerD.num

(***************************************************************************)
(* Perforated panels                                                       *)
(***************************************************************************)
PanelParts == {"wallFront", "wallBack", "wallRight", "wallLeft"}

PanelGeometries ==
    {group[k].geometry : k \in {n \in 1..Len(group) : group[n].part \in PanelParts}}

Cells(g) == (0..(g.rows - 1)) \X (0..(g.cols - 1))

OddRowLastColumn(g, row, col) == row % 2 = 1 /\ col = g.cols - 1

\* The centre of cell (row, col) is beyond the usable span of the panel.
OutsideSpan(g, row, col) ==
    LET cx == g.startX.num + col * g.spacingX.num
              + (IF row % 2 = 1 THEN g.spacingX.num \div 2 ELSE 0)
        cy == g.startY.num + row * g.spacingY.num
    IN  \/ cx > (g.w.num \div 2) - g.margin.num
        \/ cy > g.height.num - g.margin.num

Skipped(g) ==
    {cell \in Cells(g) : \/ OddRowLastColumn(g, cell[1], cell[2])
                         \/ OutsideSpan(g, cell[1], cell[2])}

HolesWithinSpan(g) ==
    /\ g.margin = Sc((config.wall * 3) \div 2)
    /\ Len(g.holes) > 0 => g.cols > 0 /\ g.rows > 0
    /\ \A n \in 1..Len(g.holes) :
        LET hole == g.holes[n]
        IN  /\ ~OddRowLastColumn(g, hole.row, hole.col)
            /\ hole.cx.num <= (g.w.num \div 2) - g.margin.num
            /\ hole.cy.num <= g.height.num - g.margin.num

HoleCount(g) ==
    /\ Len(g.holes) = g.rows * g.cols - Cardinality(Skipped(g))
    /\ Len(g.holes) <= g.rows * g.cols - (g.rows \div 2)

\* C25 as stated: on every panel no hole without cols > 0 and rows > 0, no
\* hole in the last column of an odd row, every hole centre within
\* w/2 - margin and height - margin, margin = 1.5 * thickness, and the hole
\* count is rows * cols minus the skipped cells, at most
\* rows * cols - floor(rows / 2).
C25_Original ==
    \A g \in PanelGeometries : HolesWithinSpan(g) /\ HoleCount(g)

\* C25, amended: the same, the count and its upper bound holding on the
\* panels with cols > 0 and rows > 0; a panel with cols <= 0 or rows <= 0
\* has no hole at all.
C25_Perforation ==
    \A g \in PanelGeometries :
        /\ HolesWithinSpan(g)
        /\ IF g.cols > 0 /\ g.rows > 0 THEN HoleCount(g) ELSE Len(g.holes) = 0

C25_Witness ==
    \E g \in PanelGeometries :
        /\ g.cols > 1
        /\ g.rows > 1
        /\ Len(g.holes) = g.rows * g.cols - (g.rows \div 2)
        /\ \E n \in 1..Len(g.holes) : g.holes[n].row % 2 = 1

(***************************************************************************)
(* The compartment walls                                                   *)
(***************************************************************************)
\* The wall sits on an interior line of the grid of the Configuration and
\* its segment index names a cell of that grid.
OnInteriorLine(w) ==
    IF w.axis = "x"
    THEN /\ 0 < w.pos /\ w.pos < config.gridWidth * 42
         /\ 0 <= w.seg /\ w.seg < config.gridDepth
    ELSE /\ 0 < w.pos /\ w.pos < config.gridDepth * 42
         /\ 0 <= w.seg /\ w.seg < config.gridWidth

\* C27: after any sequence of wall toggles and grid-size changes, the prune
\* effect having run, every wall of the list is on an interior line of the
\* current grid, and no wall is in the list twice.
C27_WallsInterior ==
    /\ \A k \in 1..Len(compartmentWalls) : OnInteriorLine(compartmentWalls[k])
    /\ \A k, n \in 1..Len(compartmentWalls) :
          compartmentWalls[k] = compartmentWalls[n] => k = n

\* C28: the wall list is non-empty only while the App is in gridfinity mode
\* with the bin type selected, and the model group of an inch or mm box or
\* of a frame holds no divider.
C28_WallsOnlyInBin ==
    /\ Len(compartmentWalls) > 0 => IsBin
    /\ ~IsBin => ~HasPart("divider")

C28_Witness ==
    /\ IsBin
    /\ Len(compartmentWalls) > 0
    /\ HasPart("divider")

(***************************************************************************)
(* Updates of the Configuration                                            *)
(***************************************************************************)
NumericFieldsOK(cfg) == \A k \in NumberKeys : cfg[k] # NaN /\ cfg[k] >= 0

\* C30: no update leaves NaN or a negative number in a numeric field (such
\* a value is rejected and the Configuration stays as it was), an accepted
\* update changes the named key and no other, and so every numeric field is
\* a non-negative number after any sequence of updates from the defaults.
C30_Updates ==
    /\ []NumericFieldsOK(config)
    /\ [][ config' # config =>
             /\ NumericFieldsOK(config')
             /\ \E key \in DOMAIN config :
                   \A k \in DOMAIN config \ {key} : config'[k] = config[k] ]_vars

C30_Witness ==
    /\ config.height = initIn(100)
    /\ config.holes
    /\ config.gridWidth = 1
    /\ NumericFieldsOK(config)

=============================================================================
